---- MODULE Spec2Model ----
(***************************************************************************)
(* Retrieval pipeline of novus-americanus: the semantic chunker            *)
(* (source/tools/chunking.ts), the batch processor with retry/backoff      *)
(* (source/tools/embeddings.ts) and the backfill orchestrator              *)
(* (source/tools/backfill-embeddings.ts).                                  *)
(***************************************************************************)
EXTENDS Integers, Sequences, FiniteSets, TLC

(***************************************************************************)
(* Bounds of the model.                                                    *)
(***************************************************************************)
\* longest freely chosen part of a text over the two-letter alphabet
MaxTextLen == 9
\* length of the run of letters that may precede the freely chosen part
MaxFill == 10
\* longest text over the full alphabet (all five split markers occur)
MaxRichLen == 4
\* largest targetSize (tokens) handed to the chunker
MaxTargetSize == 3
\* most chunks of a source handed to the batch processor on its own
MaxBatchChunks == 3
\* largest batchSize option tried
MaxBatchSize == 2
\* largest maxRetries option tried
MaxRetriesOpt == 3
\* number of sources a backfill run lists
NumDocs == 2
\* most chunks of a source in a backfill run
MaxDocChunks == 6
\* most failures the provider and the store show in one backfill run
MaxFaults == 3
\* length of the long run of letters a reprocessed text may start with: at
\* the default chunk size it makes more chunks than one batch takes
MaxLongFill == 7000
\* longest freely chosen end of a reprocessed text
MaxTailLen == 2
\* calls of reprocessSource made for one source
MaxRuns == 2
\* the largest maxRetries of the comparison of the two batch functions
MaxEquivRetries == 2
\* sources in the table when backfillEmbeddings queues its tasks
MaxPoolDocs == 4
\* chunks in the table a search reads
MaxSearchRows == 3
\* length of the longest run of letters chunked with the default parameters
MaxDefaultLen == 4200
\* most new URLs a search of researchTopic finds
MaxNewUrls == 5
\* most URLs of a search that linkExistingSource links
MaxLinked == 1

(***************************************************************************)
(* Program constants.                                                      *)
(***************************************************************************)
CHARS_PER_TOKEN == 4
\* the loop stops when fewer than this many characters remain
TailEpsilon == 10

Min(a, b) == IF a < b THEN a ELSE b
Max(a, b) == IF a > b THEN a ELSE b
SetMax(S) == CHOOSE x \in S : \A y \in S : y <= x
SetMin(S) == CHOOSE x \in S : \A y \in S : x <= y

VARIABLES
    \* ---- semanticChunk -------------------------------------------------
    text,          \* the document, a sequence of one-character strings
    targetSize,    \* parameter targetSize (tokens)
    overlapPct,    \* parameter overlapRatio, in hundredths
    position,      \* local `position`
    chunkIndex,    \* local `chunkIndex`
    chunks,        \* local `chunks`, the result
    cpc,           \* "loop": at the while test, "done": returned
    currentHeading,\* local `currentHeading` (<<>>: the empty string)
    lastIndex,     \* headingPattern.lastIndex, kept between exec calls
    \* ---- the vector store and the batch processor ----------------------
    store,         \* table source_chunks: a set of rows
    opts,          \* BatchProcessOptions after defaulting
    bpFn,          \* "materialized" (processSourceInBatches), "streaming"
                   \* (processSourceInBatchesStreaming) or "none"
    bpSource,      \* parameter sourceId
    bpTotal,       \* number of chunks the chunk array / generator holds
    consumed,      \* chunks already taken into batches
    batch,         \* the current batch: the indices of its chunks
    attempt,       \* loop variable `attempt`
    delay,         \* local `delay`
    lastError,     \* local `lastError` (NoError: undefined)
    embeddings,    \* what generateEmbeddings returned for this attempt
    totalProcessed,\* local `totalProcessed` of the streaming function
    bpPc,          \* control point of the call
    bpError,       \* the error the call raised (NoError: none)
    calls,         \* generateEmbeddings calls made for the current batch
    sleeps,        \* the totalDelay of every sleep of the current batch
    inserts,       \* successful bulk inserts of the current batch
    \* ---- backfillEmbeddings ---------------------------------------------
    bodies,        \* table sources: per source id -1 (no such row), 0 (no
                   \* jina_archive_contents) or the number of chunks the
                   \* chunker yields for its contents
    skipExisting,  \* option skipExisting
    throwsOn,      \* the progress messages on which onProgress throws
    result,        \* local `result`
    cur,           \* the source the one p-limit slot is working on
    wpc,           \* control point of that task
    bfState,       \* the promise of backfillEmbeddings: "running",
                   \* "returned" or "raised"
    outcomes,      \* per source id, the counters incremented for it
    errorCalls,    \* the source ids onError was called with
    faults,        \* failures the provider and the store have shown
    progress,      \* the completedCount of every onProgress call of the run
    cancelled,     \* the caller has asked for the run to stop
    \* ---- isRetryableError on its own ------------------------------------
    probe,         \* parameter error
    verdict,       \* "none" before the call, then "retryable" or "fatal"
    \* ---- processSource / reprocessSource -------------------------------
    rpc,           \* control point of processSource ("none": not called)
    runs,          \* calls of reprocessSource made for the source
    firstRows,     \* the rows of the source after the first call
    rpError,       \* the error processSource raised (NoError: none)
    rowsBefore,    \* the rows the source had when the call in progress began
    sourceRow,     \* table sources holds the row of the source
    \* ---- semanticChunkGenerator ----------------------------------------
    gPosition,     \* local `position`
    gChunkIndex,   \* local `chunkIndex`
    gHeading,      \* local `currentHeading`
    gLastIndex,    \* headingPattern.lastIndex of the generator's pattern
    gEnd,          \* local `endPosition` of the chunk last yielded
    yielded,       \* the chunks yielded so far
    gpc,           \* "idle": not created, "start": created and never
                   \* resumed, "suspended": at the yield of line 140,
                   \* "done": finished
    \* ---- the two batch functions run one after the other ----------------
    eqPhase,       \* "none", or the run in progress: "first" or "second"
    trace,         \* the batches, calls, answers and sleeps of that run
    firstRun,      \* how the first run went and what it left
    store0,        \* the table before the first run
    \* ---- the p-limit queue of backfillEmbeddings -------------------------
    minimalSources,\* local `minimalSources`: the ids getAllMinimal returned
    stage,         \* per position of minimalSources, where its task is
    activeCount,   \* p-limit's count of the tasks it has started and that
                   \* have not settled
    \* ---- enhancedSearch / searchSourceChunks ----------------------------
    seFn,          \* "enhanced", "simple" or "none"
    seOpts,        \* parameter options
    seRows,        \* table source_chunks as the query sees it: per chunk its
                   \* source, its similarity to the query (in hundredths)
                   \* and how many terms of the query its content holds
    seLinks,       \* table essay_sources: pairs <<essay_id, source_id>>
    seMode,        \* plpgsql.variable_conflict of the database
    sePc,          \* "embed", "rpc", "returned" or "raised"
    seEmbed,       \* the error generateEmbedding threw (NoError: none)
    seData,        \* `data` of the rpc's answer
    seError,       \* `error` of the rpc's answer (NoError: null)
    seResult,      \* what the call returned
    \* ---- backfillEmbeddings called again and again -----------------------
    bfRun,         \* the number of the run in progress (0: a single run)
    prevFailed,    \* the sources whose task failed in the run before
    \* ---- researchTopic ---------------------------------------------------
    newUrls,       \* local `newUrls`: how many URLs are left to process
    articlesLinked,\* local `articlesLinked`
    taskStage,     \* per URL, where its task is: "queued" in p-limit,
                   \* "running", "saved" (success: true) or "failed"
    taskAttempt,   \* per URL, parameter `attempt` of its latest call of
                   \* processArticleWithRetry (0: not called yet)
    retryTimers,   \* the URLs whose task waits for the timer of line 212
    rtPc,          \* "dedup" (line 159), "await" (line 232), "cooldown"
                   \* (line 251), "returned", or "none"
    rtI,           \* loop variable `i`
    articlesArchived, \* local `articlesArchived`
    articlesFailed,   \* local `articlesFailed`
    cancelAsked,   \* what shouldCancel() answers from now on
    cancelSeen     \* a call of shouldCancel() has answered true

chunkVars == <<text, targetSize, overlapPct, position, chunkIndex, chunks, cpc,
               currentHeading, lastIndex>>
bpVars == <<opts, bpFn, bpSource, bpTotal, consumed, batch, attempt, delay,
            lastError, embeddings, totalProcessed, bpPc, bpError, calls,
            sleeps, inserts>>
bfVars == <<bodies, skipExisting, throwsOn, result, cur, wpc, bfState,
            outcomes, errorCalls, faults, progress>>
clVars == <<probe, verdict>>
rpVars == <<rpc, runs, firstRows, rpError, rowsBefore, sourceRow>>
genVars == <<gPosition, gChunkIndex, gHeading, gLastIndex, gEnd, yielded,
             gpc>>
eqVars == <<eqPhase, trace, firstRun, store0>>
plVars == <<minimalSources, stage, activeCount>>
seVars == <<seFn, seOpts, seRows, seLinks, seMode, sePc, seEmbed, seData,
            seError, seResult>>
runVars == <<bfRun, prevFailed>>
rtVars == <<newUrls, articlesLinked, taskStage, taskAttempt, retryTimers, rtPc,
            rtI, articlesArchived, articlesFailed, cancelAsked, cancelSeen>>
extVars == <<runVars, rtVars>>
moreVars == <<genVars, eqVars, plVars, seVars, extVars>>
vars == <<chunkVars, store, bpVars, bfVars, cancelled, clVars, rpVars, moreVars>>

(***************************************************************************)
(* chunking.ts                                                             *)
(***************************************************************************)
PlainChars == {"a", " "}
RichChars == {"a", " ", "\n", ".", ","}
\* overlapRatio values, in hundredths (0.15 is the default)
OverlapPcts == {0, 15, 90, 100}

SeqsUpTo(S, n) == UNION {[1..k -> S] : k \in 0..n}
Filler(n) == [i \in 1..n |-> "a"]
\* lines of markdown: headings, lines that only look like one, and prose
HeadingLines ==
    {<<"#", " ", "a">>, <<"#", "#", " ", "b">>, <<"#", "b">>, <<"#", " ">>,
     <<"#">>, <<"a", " ", "#", " ", "b">>, <<>>}
\* two lines and a paragraph of letters
HeadingTexts ==
    {l1 \o <<"\n">> \o l2 \o <<"\n">> \o Filler(n) :
        l1 \in HeadingLines, l2 \in HeadingLines, n \in {0, MaxFill}}

\* a run of letters (none, or MaxFill of them) followed by any short text over
\* the two-letter alphabet, and every short text over the full alphabet
Texts ==
    {Filler(n) \o t : n \in {0, MaxFill}, t \in SeqsUpTo(PlainChars, MaxTextLen)}
        \cup SeqsUpTo(RichChars, MaxRichLen)
        \cup HeadingTexts

\* estimateTokens: Math.ceil(text.length / CHARS_PER_TOKEN)
estimateTokens(s) == (Len(s) + CHARS_PER_TOKEN - 1) \div CHARS_PER_TOKEN

\* String.prototype.substring(from, to) for 0 <= from <= to <= length
Substring(s, from, to) == SubSeq(s, from + 1, to)

\* does `needle` occur in s at 0-based index k
OccursAt(s, needle, k) ==
    /\ k >= 0
    /\ k + Len(needle) <= Len(s)
    /\ \A j \in 1..Len(needle) : s[k + j] = needle[j]

\* String.prototype.lastIndexOf(needle, fromIndex): the largest index
\* k <= fromIndex at which needle occurs, -1 when there is none
LastIndexOf(s, needle, fromIndex) ==
    LET hits == {k \in 0..Min(Max(fromIndex, 0), Len(s) - Len(needle)) :
                     OccursAt(s, needle, k)}
    IN  IF hits = {} THEN -1 ELSE SetMax(hits)

\* const boundaries = ['\n\n', '\n', '. ', ', ', ' ']
boundaries == << <<"\n", "\n">>, <<"\n">>, <<".", " ">>, <<",", " ">>, <<" ">> >>

targetCharsOf(size) == size * CHARS_PER_TOKEN

\* overlapCharsOf with Math.ceil in place of Math.floor
overlapCharsCeil(size, pct) == (targetCharsOf(size) * pct + 99) \div 100

\* Math.floor(targetChars * overlapRatio)
overlapCharsOf(size, pct) == (targetCharsOf(size) * pct) \div 100

\* boundaryIndex > position + targetChars * 0.8
PastEightyPercent(boundaryIndex, pos, targetChars) ==
    5 * (boundaryIndex - pos) > 4 * targetChars

\* lines 58-70: the end of the chunk that starts at pos
EndPositionOf(s, pos, targetChars) ==
    LET tentative == pos + targetChars
        maxSearch == Min(tentative, Len(s))
        idx(i) == LastIndexOf(s, boundaries[i], maxSearch)
        accepted == {i \in 1..Len(boundaries) :
                        PastEightyPercent(idx(i), pos, targetChars)}
        first == SetMin(accepted)
        snapped == IF accepted = {} THEN tentative
                   ELSE idx(first) + Len(boundaries[first])
    IN  Min(snapped, Len(s))

\* MakeChunk with the index counted from 1
MakeChunkOneBased(s, pos, endPosition, idx, heading) ==
    [content     |-> Substring(s, pos, endPosition),
     index       |-> idx + 1,
     tokenCount  |-> estimateTokens(Substring(s, pos, endPosition)),
     startOffset |-> pos,
     endOffset   |-> endPosition,
     headingContext |-> heading]

\* lines 74-82: the chunk pushed for [pos, endPosition); headingContext is
\* currentHeading || undefined, and <<>> stands for undefined
MakeChunk(s, pos, endPosition, idx, heading) ==
    [content     |-> Substring(s, pos, endPosition),
     index       |-> idx,
     tokenCount  |-> estimateTokens(Substring(s, pos, endPosition)),
     startOffset |-> pos,
     endOffset   |-> endPosition,
     headingContext |-> heading]

\* NextPositionOf without the forward-progress test of line 86
NextPositionNoGuard(pos, endPosition, overlapChars) == endPosition - overlapChars

\* lines 84-90: where the next chunk starts
NextPositionOf(pos, endPosition, overlapChars) ==
    LET nextPosition == endPosition - overlapChars
    IN  IF nextPosition <= pos THEN endPosition ELSE nextPosition

\* line 94: if (position >= text.length - 10) break
TailReached(pos, s) == pos >= Len(s) - TailEpsilon

\* the lookahead of lines 51-52 reaches this many characters
HeadingWindow == 200

\* lines 51-52: text.substring(position, Math.min(position + 200, length))
SearchText(s, pos) == Substring(s, pos, Min(pos + HeadingWindow, Len(s)))

\* \s, for the characters of the texts
IsWhitespace(c) == c \in {" ", "\n"}

\* ^ under the m flag: index k of s starts a line
LineStart(s, k) == k = 0 \/ s[k] = "\n"

\* $ under the m flag: the end of the line that holds index k
LineEnd(s, k) == SetMin({e \in k..Len(s) : e = Len(s) \/ s[e + 1] = "\n"})

\* how many of the characters of s from index k on are '#', or whitespace
HashRun(s, k) == SetMax({n \in 0..(Len(s) - k) : \A i \in 1..n : s[k + i] = "#"})
SpaceRun(s, k) ==
    SetMax({n \in 0..(Len(s) - k) : \A i \in 1..n : IsWhitespace(s[k + i])})

NoMatch == [found |-> FALSE, group |-> <<>>, lastIndex |-> 0]

\* /#{1,6}\s+(.+)$/ tried at index k: one to six '#' and nothing but
\* whitespace after them, then the greedy \s+, which gives characters
\* back until (.+) finds one that is no line break, then (.+) to the end
\* of that line
HeadingAt(s, k) ==
    LET h == HashRun(s, k)
        w == SpaceRun(s, k + h)
        j == k + h + w
        starts == IF j < Len(s) THEN {j}
                  ELSE {p \in (k + h + 1)..(j - 1) : s[p + 1] # "\n"}
        g == SetMax(starts)
    IN  IF h \notin 1..6 \/ w = 0 \/ starts = {} THEN NoMatch
        ELSE [found |-> TRUE, group |-> Substring(s, g, LineEnd(s, g)),
              lastIndex |-> LineEnd(s, g)]

\* line 53: headingPattern.exec(searchText) of a pattern with the g flag:
\* the search starts at lastIndex, the leftmost match wins and leaves
\* lastIndex at its end, and a failed search leaves lastIndex at 0
Exec(s, from) ==
    LET ks == {k \in from..(Len(s) - 1) : LineStart(s, k) /\ HeadingAt(s, k).found}
    IN  IF ks = {} THEN NoMatch ELSE HeadingAt(s, SetMin(ks))

\* lines 54-56: if (headingMatch?.[1]) currentHeading = headingMatch[1]
HeadingAfter(heading, headingMatch) ==
    IF headingMatch.found /\ headingMatch.group # <<>> THEN headingMatch.group
    ELSE heading

\* no text is being chunked
ChunkIdle ==
    /\ text = <<>> /\ targetSize = 1 /\ overlapPct = 0 /\ position = 0
    /\ chunkIndex = 0 /\ chunks = <<>> /\ cpc = "done"
    /\ currentHeading = <<>> /\ lastIndex = 0

ChunkStart ==
    /\ text \in Texts
    /\ targetSize \in 1..MaxTargetSize
    /\ overlapPct \in OverlapPcts
    /\ position = 0
    /\ chunkIndex = 0
    /\ chunks = <<>>
    /\ cpc = "loop"
    /\ currentHeading = <<>>
    /\ lastIndex = 0

\* one pass through the body of `while (position < text.length)`
ChunkStep ==
    /\ cpc = "loop"
    /\ position < Len(text)
    /\ LET targetChars == targetCharsOf(targetSize)
           headingMatch == Exec(SearchText(text, position), lastIndex)
           heading == HeadingAfter(currentHeading, headingMatch)
           endPosition == EndPositionOf(text, position, targetChars)
           newPos == NextPositionOf(position, endPosition,
                                    overlapCharsOf(targetSize, overlapPct))
       IN  /\ currentHeading' = heading
           /\ lastIndex' = headingMatch.lastIndex
           /\ chunks' = Append(chunks, MakeChunk(text, position, endPosition,
                                                chunkIndex, heading))
           /\ position' = newPos
           /\ chunkIndex' = chunkIndex + 1
           /\ cpc' = IF TailReached(newPos, text) THEN "done" ELSE "loop"
    /\ UNCHANGED <<text, targetSize, overlapPct>>

\* the while test fails: return chunks
ChunkReturn ==
    /\ cpc = "loop"
    /\ position >= Len(text)
    /\ cpc' = "done"
    /\ UNCHANGED <<text, targetSize, overlapPct, position, chunkIndex, chunks,
                   currentHeading, lastIndex>>


(***************************************************************************)
(* chunking.ts: semanticChunkGenerator                                     *)
(***************************************************************************)
\* line 126: const boundaries = ['\n\n', '\n', '. ', ', ', ' ']
genBoundaries == << <<"\n", "\n">>, <<"\n">>, <<".", " ">>, <<",", " ">>, <<" ">> >>

\* GenEndPositionOf that never snaps to a boundary
GenEndPositionNoSnap(s, pos, targetChars) == Min(pos + targetChars, Len(s))

\* lines 124-136: the end of the chunk that starts at pos
GenEndPositionOf(s, pos, targetChars) ==
    LET tentative == pos + targetChars
        maxSearch == Min(tentative, Len(s))
        idx(i) == LastIndexOf(s, genBoundaries[i], maxSearch)
        accepted == {i \in 1..Len(genBoundaries) :
                        5 * (idx(i) - pos) > 4 * targetChars}
    IN  IF accepted = {} THEN Min(tentative, Len(s))
        ELSE Min(idx(SetMin(accepted)) + Len(genBoundaries[SetMin(accepted)]),
                 Len(s))

\* lines 140-148: the chunk yielded for [pos, endPosition)
GenChunk(s, pos, endPosition, idx, heading) ==
    [content     |-> Substring(s, pos, endPosition),
     index       |-> idx,
     tokenCount  |-> estimateTokens(Substring(s, pos, endPosition)),
     startOffset |-> pos,
     endOffset   |-> endPosition,
     headingContext |-> heading]

\* lines 150-156: where the next chunk starts
GenNextPositionOf(pos, endPosition, overlapChars) ==
    IF endPosition - overlapChars <= pos THEN endPosition
    ELSE endPosition - overlapChars

\* no generator exists
GenIdle ==
    /\ gPosition = 0 /\ gChunkIndex = 0 /\ gHeading = <<>> /\ gLastIndex = 0
    /\ gEnd = 0 /\ yielded = <<>> /\ gpc = "idle"

\* semanticChunkGenerator(text, targetSize, overlapRatio) has been called:
\* the generator object exists and no line of the body has run yet
GenStart ==
    /\ gPosition = 0 /\ gChunkIndex = 0 /\ gHeading = <<>> /\ gLastIndex = 0
    /\ gEnd = 0 /\ yielded = <<>> /\ gpc = "start"

\* what next() does before it reaches the while test: on the first call
\* lines 108-114 (the locals keep their initial values), on a later call
\* lines 150-162, the code after the yield: position and chunkIndex are
\* advanced and the tail test is made
GenResume ==
    IF gpc = "suspended"
    THEN LET overlapChars == (targetSize * CHARS_PER_TOKEN * overlapPct) \div 100
             newPos == GenNextPositionOf(gPosition, gEnd, overlapChars)
         IN  [position |-> newPos, chunkIndex |-> gChunkIndex + 1,
              break |-> newPos >= Len(text) - TailEpsilon]
    ELSE [position |-> gPosition, chunkIndex |-> gChunkIndex, break |-> FALSE]

\* next() returns {done: false}: the generator runs from where it was
\* suspended to the yield of line 140 and is suspended there, before
\* position and chunkIndex are advanced
GenStep ==
    /\ gpc \in {"start", "suspended"}
    /\ ~GenResume.break
    /\ GenResume.position < Len(text)
    /\ LET pos == GenResume.position
           targetChars == targetSize * CHARS_PER_TOKEN
           searchText == Substring(text, pos, Min(pos + HeadingWindow, Len(text)))
           headingMatch == Exec(searchText, gLastIndex)
           heading == IF headingMatch.found /\ headingMatch.group # <<>>
                      THEN headingMatch.group ELSE gHeading
           endPosition == GenEndPositionOf(text, pos, targetChars)
       IN  /\ gHeading' = heading
           /\ gLastIndex' = headingMatch.lastIndex
           /\ yielded' = Append(yielded, GenChunk(text, pos, endPosition,
                                                  GenResume.chunkIndex, heading))
           /\ gPosition' = pos
           /\ gChunkIndex' = GenResume.chunkIndex
           /\ gEnd' = endPosition
           /\ gpc' = "suspended"

\* next() returns {done: true}: the break of line 161 is taken or the while
\* test of line 116 fails, and the generator finishes
GenReturn ==
    /\ gpc \in {"start", "suspended"}
    /\ GenResume.break \/ GenResume.position >= Len(text)
    /\ gPosition' = GenResume.position
    /\ gChunkIndex' = GenResume.chunkIndex
    /\ gpc' = "done"
    /\ UNCHANGED <<gHeading, gLastIndex, gEnd, yielded>>

(***************************************************************************)
(* embeddings.ts: errors and their classification                          *)
(***************************************************************************)
\* an error as isRetryableError reads it: statusCode (0: undefined), code
\* ("": undefined) and message
NoError == [statusCode |-> 0, code |-> "", message |-> ""]
RateLimited == [statusCode |-> 429, code |-> "", message |-> "rate limit exceeded"]
BadRequest == [statusCode |-> 400, code |-> "", message |-> "invalid input"]
ServerError == [statusCode |-> 503, code |-> "", message |-> "service unavailable"]
TimedOut == [statusCode |-> 0, code |-> "ETIMEDOUT", message |-> "request timeout"]
\* Error('No embeddings returned from Voyage AI'), line 89
NoEmbeddingsReturned ==
    [statusCode |-> 0, code |-> "", message |-> "No embeddings returned from Voyage AI"]
\* PostgrestError of a violated UNIQUE(source_id, chunk_index)
UniqueViolation ==
    [statusCode |-> 0, code |-> "23505",
     message |-> "duplicate key value violates unique constraint"]
\* PostgrestError of a null in column embedding (NOT NULL)
NotNullViolation ==
    [statusCode |-> 0, code |-> "23502",
     message |-> "null value in column embedding violates not-null constraint"]
\* PostgrestError of a store that cannot be reached
StoreUnavailable ==
    [statusCode |-> 0, code |-> "", message |-> "connection refused"]

\* message.includes(word), tabulated for the messages above
Includes(message, word) ==
    \/ word = "timeout" /\ message \in {"request timeout"}
    \/ word = "connection"
          /\ message \in {"connection refused", "connection not authorized"}

\* lines 97-124
isRetryableError(err) ==
    IF err.statusCode = 429 THEN TRUE
    ELSE IF err.statusCode # 0 /\ err.statusCode >= 500 /\ err.statusCode < 600 THEN TRUE
    ELSE IF err.code = "ETIMEDOUT" \/ err.code = "ECONNRESET" THEN TRUE
    ELSE IF Includes(err.message, "connection") \/ Includes(err.message, "timeout") THEN TRUE
    ELSE IF err.statusCode # 0 /\ err.statusCode >= 400 /\ err.statusCode < 500 THEN FALSE
    ELSE TRUE

\* isRetryableError has not been called on its own
ClassifyIdle == probe = NoError /\ verdict = "none"

\* the errors isRetryableError is called with on its own: every combination
\* of these values of statusCode (0: undefined), code and message
ProbeErrors ==
    [statusCode : {0, 399, 400, 401, 429, 499, 500, 503, 599, 600},
     code : {"", "ETIMEDOUT", "ECONNRESET", "23505"},
     message : {"", "invalid input", "request timeout", "connection refused",
                "connection not authorized"}]

ClassifyInit == probe \in ProbeErrors /\ verdict = "none"

\* the call isRetryableError(probe) returns
Classify ==
    /\ verdict = "none"
    /\ verdict' = IF isRetryableError(probe) THEN "retryable" ELSE "fatal"
    /\ UNCHANGED probe

\* errors client.embed rejects with in the model
ProviderErrors == {RateLimited, BadRequest}

(***************************************************************************)
(* embeddings.ts: options                                                  *)
(***************************************************************************)
DefaultBatchSize == 5
DefaultMaxRetries == 3
DefaultInitialDelay == 1000
DefaultMaxDelay == 30000
DefaultBackoffMultiplier == 2
\* a maxDelay the second backoff delay already exceeds
SmallMaxDelay == 1500

DefaultOptions ==
    [batchSize |-> DefaultBatchSize, maxRetries |-> DefaultMaxRetries,
     initialDelay |-> DefaultInitialDelay, maxDelay |-> DefaultMaxDelay,
     backoffMultiplier |-> DefaultBackoffMultiplier]

OptionChoices ==
    [batchSize : 1..MaxBatchSize, maxRetries : 0..MaxRetriesOpt,
     initialDelay : {DefaultInitialDelay},
     maxDelay : {SmallMaxDelay, DefaultMaxDelay},
     backoffMultiplier : {DefaultBackoffMultiplier}]

\* Math.random(), in hundredths: its least and its greatest value
RandomPcts == {0, 99}

(***************************************************************************)
(* The vector store: table source_chunks and batch_insert_chunks           *)
(***************************************************************************)
\* JSON null: the value of a key JSON.stringify left out
Null == -1

\* the vector the provider computes for the content of chunk i
VectorOf(i) == i

\* the row a completed earlier call left for chunk i of source s
OldRow(s, i) ==
    [source_id |-> s, chunk_index |-> i, content |-> <<>>, token_count |-> 0,
     start_char_offset |-> 0, end_char_offset |-> 0,
     embedding |-> VectorOf(i), fresh |-> FALSE]

RowsOf(st, s) == {r \in st : r.source_id = s}

\* UNIQUE(source_id, chunk_index)
Conflicts(st, rows) ==
    \E k \in 1..Len(rows) : \E r \in st :
        r.source_id = rows[k].source_id /\ r.chunk_index = rows[k].chunk_index

\* InsertError for a column `embedding` that takes NULL
InsertErrorNullable(st, rows) ==
    IF Conflicts(st, rows) THEN UniqueViolation ELSE NoError

\* the error of the one INSERT ... SELECT of batch_insert_chunks on `rows`:
\* the statement takes the rows in order, tests NOT NULL on a row before it
\* enters the row in the unique index, and stops at the first row that fails
InsertError(st, rows) ==
    LET failing == {k \in 1..Len(rows) :
                       rows[k].embedding = Null \/ Conflicts(st, <<rows[k]>>)}
    IN  IF failing = {} THEN NoError
        ELSE IF rows[SetMin(failing)].embedding = Null THEN NotNullViolation
        ELSE UniqueViolation

\* InsertRows that keeps the rows it could insert before the failing one
InsertRowsPartial(st, rows) ==
    st \cup {[rows[k] EXCEPT !.fresh = TRUE] :
                k \in {j \in 1..Len(rows) :
                          /\ \A i \in 1..j : rows[i].embedding # Null
                          /\ \A i \in 1..j : ~Conflicts(st, <<rows[i]>>)}}

\* the table after batch_insert_chunks(rows): the statement inserts every
\* row or, on an error, none
InsertRows(st, rows) ==
    IF InsertError(st, rows) = NoError
    THEN st \cup {[rows[k] EXCEPT !.fresh = TRUE] : k \in 1..Len(rows)}
    ELSE st

(***************************************************************************)
(* embeddings.ts: generateEmbeddings and the batch loop                    *)
(***************************************************************************)
\* lines 92-94: response.data.map(d => d.embedding).filter(Boolean) when the
\* provider answers for the texts of batch b and leaves out the vectors at
\* the positions in `omitted`
FilteredEmbeddings(b, omitted) ==
    LET kept == {k \in 1..Len(b) : k \notin omitted}
        nth[n \in 0..Len(b)] ==
            IF n = 0 THEN 0 ELSE SetMin({k \in kept : k > nth[n - 1]})
    IN  [n \in 1..Cardinality(kept) |-> VectorOf(b[nth[n]])]

\* which vectors a provider answer may leave out: none, the first or the last
Omissions(b) == {{}} \cup {{k} : k \in {1, Len(b)}}

\* the chunk with index i of the chunk array or generator: the chunker's
\* result where the chunker has run, else a chunk of which only the index
\* is modelled
ChunkAt(i) ==
    IF i < Len(chunks) THEN chunks[i + 1]
    ELSE [content |-> <<>>, index |-> i, tokenCount |-> 0,
          startOffset |-> 0, endOffset |-> 0]

\* lines 274-284: embeddings[index] is undefined past the end of the list
\* and JSON.stringify(undefined) leaves the key out of the row
ChunksData(s, b, embs) ==
    [k \in 1..Len(b) |->
        [source_id |-> s, chunk_index |-> ChunkAt(b[k]).index,
         content |-> ChunkAt(b[k]).content,
         token_count |-> ChunkAt(b[k]).tokenCount,
         start_char_offset |-> ChunkAt(b[k]).startOffset,
         end_char_offset |-> ChunkAt(b[k]).endOffset,
         embedding |-> IF k <= Len(embs) THEN embs[k] ELSE Null,
         fresh |-> FALSE]]

\* TakeBatch that takes the chunks from the end of the document
TakeBatchFromEnd(taken, total, batchSize) ==
    [k \in 1..Min(batchSize, total - taken) |->
        total - taken - Min(batchSize, total - taken) + k - 1]

\* lines 141-143 and 224-227: the chunks of the batch that starts after
\* `taken` chunks
TakeBatch(taken, total, batchSize) ==
    [k \in 1..Min(batchSize, total - taken) |-> taken + k - 1]

\* GivesUp that allows one attempt less
GivesUpEarly(err, att, maxRetries) ==
    ~isRetryableError(err) \/ att >= maxRetries - 1

\* line 300: if (!isRetryable || attempt === maxRetries)
GivesUp(err, att, maxRetries) ==
    ~isRetryableError(err) \/ att = maxRetries

\* TotalDelay without the cap
TotalDelayUncapped(d, randomPct, maxDelay) == d + (randomPct * d) \div 1000

\* lines 308-309: Math.min(delay + Math.random() * 0.1 * delay, maxDelay)
TotalDelay(d, randomPct, maxDelay) ==
    Min(d + (randomPct * d) \div 1000, maxDelay)

\* the call has ended and its frame is gone
BpLeave ==
    /\ opts' = DefaultOptions
    /\ bpFn' = "none" /\ bpSource' = 0 /\ bpTotal' = 0 /\ consumed' = 0
    /\ batch' = <<>> /\ attempt' = 0 /\ delay' = 0 /\ lastError' = NoError
    /\ embeddings' = <<>> /\ totalProcessed' = 0 /\ bpPc' = "idle"
    /\ bpError' = NoError /\ calls' = 0 /\ sleeps' = <<>> /\ inserts' = 0

BpIdle ==
    /\ opts = DefaultOptions
    /\ bpFn = "none" /\ bpSource = 0 /\ bpTotal = 0 /\ consumed = 0
    /\ batch = <<>> /\ attempt = 0 /\ delay = 0 /\ lastError = NoError
    /\ embeddings = <<>> /\ totalProcessed = 0 /\ bpPc = "idle"
    /\ bpError = NoError /\ calls = 0 /\ sleeps = <<>> /\ inserts = 0

\* a call processSourceInBatches(s, chunks, o) or
\* processSourceInBatchesStreaming(s, generator, o) is entered
BpEnter(fn, s, total, o) ==
    /\ opts' = o
    /\ bpFn' = fn /\ bpSource' = s /\ bpTotal' = total /\ consumed' = 0
    /\ batch' = <<>> /\ attempt' = 0 /\ delay' = 0 /\ lastError' = NoError
    /\ embeddings' = <<>> /\ totalProcessed' = 0 /\ bpPc' = "next"
    /\ bpError' = NoError /\ calls' = 0 /\ sleeps' = <<>> /\ inserts' = 0

\* lines 145-149 and 224-241, 264-267: the next batch is formed and its
\* first attempt starts; without a next batch the call returns
BpNextBatch ==
    /\ bpPc = "next"
    /\ IF consumed < bpTotal
       THEN LET b == TakeBatch(consumed, bpTotal, opts.batchSize)
            IN  /\ batch' = b
                /\ consumed' = consumed + Len(b)
                /\ attempt' = 1
                /\ delay' = opts.initialDelay
                /\ IF 1 <= opts.maxRetries
                   THEN bpPc' = "embed" /\ UNCHANGED totalProcessed
                   ELSE \* the attempt loop is not entered and lastError
                        \* is undefined
                        /\ bpPc' = "next"
                        /\ totalProcessed' =
                              IF bpFn = "streaming"
                              THEN totalProcessed + Len(b) ELSE totalProcessed
       ELSE /\ bpPc' = "returned"
            /\ UNCHANGED <<batch, consumed, attempt, delay, totalProcessed>>
    /\ lastError' = NoError
    /\ embeddings' = <<>>
    /\ calls' = 0 /\ sleeps' = <<>> /\ inserts' = 0
    /\ UNCHANGED <<opts, bpFn, bpSource, bpTotal, bpError, store>>

\* the values Math.random() takes: both in a call of the batch processor on
\* its own; in a run of backfillEmbeddings or processSource, where the length
\* of a sleep plays no part, and in the comparison of the two functions,
\* the least one only
RandomDraws ==
    IF bfState = "none" /\ rpc = "none" /\ eqPhase = "none" THEN RandomPcts
    ELSE {0}

\* lines 295-317: the catch block; the try block's `embeddings` is gone
BpCatch(err) ==
    /\ lastError' = err
    /\ embeddings' = <<>>
    /\ IF GivesUp(err, attempt, opts.maxRetries)
       THEN bpPc' = "raised" /\ bpError' = err /\ UNCHANGED sleeps
       ELSE \E r \in RandomDraws :
              /\ sleeps' = Append(sleeps, TotalDelay(delay, r, opts.maxDelay))
              /\ bpPc' = "sleep"
              /\ UNCHANGED bpError

\* generateEmbeddings resolves; the rows are built and the insert is sent
BpEmbedOk ==
    /\ bpPc = "embed"
    /\ \E omitted \in Omissions(batch) :
          embeddings' = FilteredEmbeddings(batch, omitted)
    /\ calls' = calls + 1
    /\ bpPc' = "insert"
    /\ UNCHANGED <<opts, bpFn, bpSource, bpTotal, consumed, batch, attempt,
                   delay, lastError, totalProcessed, bpError, sleeps, inserts,
                   store>>

\* generateEmbeddings rejects
BpEmbedFail ==
    /\ bpPc = "embed"
    /\ calls' = calls + 1
    /\ \E err \in ProviderErrors \cup {NoEmbeddingsReturned} : BpCatch(err)
    /\ UNCHANGED <<opts, bpFn, bpSource, bpTotal, consumed, batch, attempt,
                   delay, totalProcessed, inserts, store>>

\* the rpc batch_insert_chunks answers without an error: lines 176 and
\* 202-204 (materialized), 294 and 236 (streaming)
BpInsertOk ==
    /\ bpPc = "insert"
    /\ LET rows == ChunksData(bpSource, batch, embeddings)
       IN  /\ InsertError(store, rows) = NoError
           /\ store' = InsertRows(store, rows)
    /\ inserts' = inserts + 1
    /\ IF bpFn = "materialized"
       THEN /\ UNCHANGED totalProcessed
            /\ IF lastError # NoError
               THEN bpPc' = "raised" /\ bpError' = lastError
               ELSE bpPc' = "next" /\ UNCHANGED bpError
       ELSE /\ totalProcessed' = totalProcessed + Len(batch)
            /\ bpPc' = "next"
            /\ UNCHANGED bpError
    /\ UNCHANGED <<opts, bpFn, bpSource, bpTotal, consumed, batch, attempt,
                   delay, lastError, embeddings, calls, sleeps>>

\* the rpc answers with an error: a violated constraint, or a store that
\* cannot be reached
BpInsertFail ==
    /\ bpPc = "insert"
    /\ LET rows == ChunksData(bpSource, batch, embeddings)
       IN  IF InsertError(store, rows) # NoError
           THEN /\ store' = InsertRows(store, rows)
                /\ BpCatch(InsertError(store, rows))
           ELSE /\ store' = store
                /\ BpCatch(StoreUnavailable)
    /\ UNCHANGED <<opts, bpFn, bpSource, bpTotal, consumed, batch, attempt,
                   delay, totalProcessed, calls, inserts>>

\* lines 315-316 and the loop header: the sleep is over
BpSleepDone ==
    /\ bpPc = "sleep"
    /\ delay' = delay * opts.backoffMultiplier
    /\ attempt' = attempt + 1
    /\ bpPc' = "embed"
    /\ UNCHANGED <<opts, bpFn, bpSource, bpTotal, consumed, batch, lastError,
                   embeddings, totalProcessed, bpError, calls, sleeps, inserts,
                   store>>

BpStep == BpNextBatch \/ BpEmbedOk \/ BpEmbedFail \/ BpInsertOk \/ BpInsertFail
             \/ BpSleepDone

\* rows earlier calls left for source s: those of its first n chunks
OldRows(s, n) == {OldRow(s, i) : i \in 0..(n - 1)}

(***************************************************************************)
(* backfill-embeddings.ts: backfillEmbeddings                              *)
(***************************************************************************)
\* concurrency of pLimit(1), line 47
PoolLimit == 1

DocIds == 1..NumDocs
NotFound == -1
NoContent == 0
\* what sources.getById can yield for a source
BodyKinds == {NotFound, NoContent, MaxDocChunks}

\* the messages handed to onProgress
ProgressKinds == {"checking", "loading", "processing", "skipped", "complete", "failed"}
\* the error a throwing onProgress raises
CallbackError == [statusCode |-> 0, code |-> "", message |-> "onProgress failed"]

\* the callbacks tried: one that never throws, and one for each of these
\* messages that throws on that message only
ThrowSets == {{}} \cup {{k} : k \in {"processing", "skipped", "complete", "failed"}}

\* onProgress(..) with a message of this kind throws
ProgressThrows(kind) == kind \in throwsOn

EmptyResult ==
    [totalSources |-> 0, processedSources |-> 0, skippedSources |-> 0,
     failedSources |-> 0, totalChunks |-> 0, errors |-> <<>>]

BfIdle ==
    /\ bodies = <<>> /\ skipExisting = TRUE /\ throwsOn = {}
    /\ result = EmptyResult /\ cur = 0 /\ wpc = "none" /\ bfState = "none"
    /\ outcomes = <<>> /\ errorCalls = <<>> /\ faults = 0
    /\ progress = <<>>
    /\ cancelled = FALSE

\* lines 54, 68, 80, 92, 105, 116, 135, 149: the completedCount of a call
\* of onProgress outside the catch block
Completed(res) == res.processedSources + res.skippedSources

\* line 171: the completedCount of the call in the catch block
CompletedOrFailed(res) == Completed(res) + res.failedSources

\* the calls of onProgress a step has made, in their order
Reported(said) == progress' = progress \o said

\* the task of source `cur` is over: p-limit starts the next one, and after
\* the last one Promise.all resolves unless a task has rejected (lines
\* 187-191); a rejected task rejects Promise.all at once
BfEndTask(res, outs, errCalls, rejected, said) ==
    /\ Reported(said)
    /\ result' = res
    /\ outcomes' = outs
    /\ errorCalls' = errCalls
    /\ cur' = cur + 1
    /\ wpc' = IF cur = NumDocs THEN "done" ELSE "start"
    /\ bfState' = IF bfState # "running" THEN bfState
                  ELSE IF rejected THEN "raised"
                  ELSE IF cur = NumDocs THEN "returned"
                  ELSE "running"

\* BfCatchResult that does not record the error
BfCatchResultNoEntry(res, err) ==
    [res EXCEPT !.failedSources = @ + 1]

\* lines 161-163: the counters after the catch block
BfCatchResult(res, err) ==
    [res EXCEPT !.failedSources = @ + 1,
                !.errors = Append(@, [sourceId |-> cur, error |-> err])]

\* lines 160-184: the catch block, entered with `result` as it is then
BfCatch(res, outs, err, said) ==
    BfEndTask(BfCatchResult(res, err),
              [outs EXCEPT ![cur] = Append(@, "failed")],
              Append(errorCalls, cur),
              ProgressThrows("failed"),
              Append(said, CompletedOrFailed(BfCatchResult(res, err))))

\* lines 65-74, 89-98, 102-111, 132-141: skippedSources++, onProgress, return
BfSkip ==
    LET res == [result EXCEPT !.skippedSources = @ + 1]
        outs == [outcomes EXCEPT ![cur] = Append(@, "skipped")]
    IN  IF ProgressThrows("skipped")
        THEN BfCatch(res, outs, CallbackError, <<Completed(res)>>)
        ELSE BfEndTask(res, outs, errorCalls, FALSE, <<Completed(res)>>)

\* lines 78-86: onProgress([2/4]) and the call of sources.getById
BfToLoad(said) ==
    IF ProgressThrows("loading")
    THEN BfCatch(result, outcomes, CallbackError, Append(said, Completed(result)))
    ELSE /\ wpc' = "load"
         /\ Reported(Append(said, Completed(result)))
         /\ UNCHANGED <<result, cur, bfState, outcomes, errorCalls>>

\* lines 49-63: the task starts
BfStart ==
    /\ wpc = "start"
    /\ IF ProgressThrows("checking")
       THEN BfCatch(result, outcomes, CallbackError, <<Completed(result)>>)
       ELSE IF skipExisting
       THEN /\ wpc' = "check"
            /\ Reported(<<Completed(result)>>)
            /\ UNCHANGED <<result, cur, bfState, outcomes, errorCalls>>
       ELSE BfToLoad(<<Completed(result)>>)
    /\ UNCHANGED <<bodies, skipExisting, throwsOn, faults, store, bpVars>>

\* hasEmbeddings that finds no row
hasEmbeddingsNever(st, s) == FALSE

\* sourceChunks.hasEmbeddings: count > 0
hasEmbeddings(st, s) == RowsOf(st, s) # {}

\* lines 61-76: hasEmbeddings answers
BfCheckOk ==
    /\ wpc = "check"
    /\ IF hasEmbeddings(store, cur) THEN BfSkip ELSE BfToLoad(<<>>)
    /\ UNCHANGED <<bodies, skipExisting, throwsOn, faults, store, bpVars>>

\* hasEmbeddings throws the error of the store
BfCheckFail ==
    /\ wpc = "check"
    /\ faults < MaxFaults
    /\ faults' = faults + 1
    /\ BfCatch(result, outcomes, StoreUnavailable, <<>>)
    /\ UNCHANGED <<bodies, skipExisting, throwsOn, store, bpVars>>

\* lines 86-129: getById answers; a source with contents goes on to
\* processSourceInBatchesStreaming(source.id, chunkGenerator)
BfLoadOk ==
    /\ wpc = "load"
    /\ IF bodies[cur] \in {NotFound, NoContent}
       THEN BfSkip /\ UNCHANGED <<store, bpVars>>
       ELSE IF ProgressThrows("processing")
       THEN /\ BfCatch(result, outcomes, CallbackError, <<Completed(result)>>)
            /\ UNCHANGED <<store, bpVars>>
       ELSE /\ BpEnter("streaming", cur, bodies[cur], DefaultOptions)
            /\ wpc' = "embed"
            /\ Reported(<<Completed(result)>>)
            /\ UNCHANGED <<result, cur, bfState, outcomes, errorCalls, store>>
    /\ UNCHANGED <<bodies, skipExisting, throwsOn, faults>>

\* getById throws the error of the store
BfLoadFail ==
    /\ wpc = "load"
    /\ faults < MaxFaults
    /\ faults' = faults + 1
    /\ BfCatch(result, outcomes, StoreUnavailable, <<>>)
    /\ UNCHANGED <<bodies, skipExisting, throwsOn, store, bpVars>>

\* the step of the batch processor shows a failure of the provider or of
\* the store that the state of the store does not explain
InjectedFault ==
    \/ bpPc = "embed" /\ bpPc' # "insert"
    \/ bpPc = "embed" /\ bpPc' = "insert" /\ Len(embeddings') < Len(batch)
    \/ bpPc = "insert" /\ inserts' = inserts /\ lastError' = StoreUnavailable

\* a step of processSourceInBatchesStreaming for the current source
BfBatchStep ==
    /\ wpc = "embed"
    /\ BpStep
    /\ IF InjectedFault
       THEN faults < MaxFaults /\ faults' = faults + 1
       ELSE faults' = faults
    /\ UNCHANGED <<bodies, skipExisting, throwsOn, result, cur, wpc, bfState,
                   outcomes, errorCalls, progress>>

\* lines 126-159: processSourceInBatchesStreaming returned chunkCount
BfEmbedReturned ==
    /\ wpc = "embed"
    /\ bpPc = "returned"
    /\ BpLeave
    /\ IF totalProcessed = 0
       THEN BfSkip
       ELSE LET res == [result EXCEPT !.processedSources = @ + 1,
                                      !.totalChunks = @ + totalProcessed]
                outs == [outcomes EXCEPT ![cur] = Append(@, "processed")]
            IN  IF ProgressThrows("complete")
                THEN BfCatch(res, outs, CallbackError, <<Completed(res)>>)
                ELSE BfEndTask(res, outs, errorCalls, FALSE, <<Completed(res)>>)
    /\ UNCHANGED <<bodies, skipExisting, throwsOn, faults, store>>

\* processSourceInBatchesStreaming raised: the catch block
BfEmbedRaised ==
    /\ wpc = "embed"
    /\ bpPc = "raised"
    /\ BpLeave
    /\ BfCatch(result, outcomes, bpError, <<>>)
    /\ UNCHANGED <<bodies, skipExisting, throwsOn, faults, store>>

\* the caller asks for the run to stop; nothing in BackfillOptions (lines
\* 9-13) lets backfillEmbeddings learn of it
BfCancel ==
    /\ bfState = "running"
    /\ ~cancelled
    /\ cancelled' = TRUE
    /\ UNCHANGED <<bfVars, store, bpVars>>

\* processSource has not been called
RpIdle ==
    /\ rpc = "none" /\ runs = 0 /\ firstRows = {} /\ rpError = NoError
    /\ rowsBefore = {} /\ sourceRow = FALSE

\* the rows an earlier run has left for a source of n chunks: none or all
\* (the rows of its first batches only are what a run leaves that fails
\* part-way, and the runs of the model produce that state themselves)
OldCounts(n) == IF n <= 0 THEN {0} ELSE {0, n}

\* an option that is not given
Absent == -2

\* no search is being made
SearchIdle ==
    /\ seFn = "none" /\ seRows = {} /\ seLinks = {} /\ seMode = "error"
    /\ seOpts = [essayId |-> Absent, limit |-> Absent, threshold |-> Absent,
                 rerank |-> FALSE,
                 filterMetadata |-> [given |-> FALSE, pairs |-> {}]]
    /\ sePc = "returned" /\ seEmbed = NoError /\ seData = <<>>
    /\ seError = NoError /\ seResult = <<>>

\* backfillEmbeddings has not been called
PoolIdle == minimalSources = <<>> /\ stage = <<>> /\ activeCount = 0

\* no first run of the comparison of the two batch functions has ended
NoRun == [trace |-> <<>>, store |-> {}, end |-> "none", error |-> NoError]

\* the two batch functions are not being compared
EqIdle ==
    /\ eqPhase = "none" /\ trace = <<>> /\ firstRun = NoRun /\ store0 = {}

\* nothing but the operation a specification is about is in use
\* backfillEmbeddings is not called a second time
RunsIdle == bfRun = 0 /\ prevFailed = {}

\* researchTopic has not been called
ResearchIdle ==
    /\ newUrls = 0 /\ articlesLinked = 0 /\ retryTimers = {}
    /\ taskStage = <<>> /\ taskAttempt = <<>> /\ rtPc = "none"
    /\ rtI = 0 /\ articlesArchived = 0 /\ articlesFailed = 0
    /\ cancelAsked = FALSE /\ cancelSeen = FALSE

ExtIdle == RunsIdle /\ ResearchIdle

MoreIdle == GenIdle /\ EqIdle /\ PoolIdle /\ SearchIdle /\ ExtIdle

\* lines 33-47: the state once sources.getAllMinimal has answered
BackfillInit ==
    /\ ChunkIdle /\ BpIdle
    /\ bodies \in [DocIds -> BodyKinds]
    /\ \E old \in [DocIds -> 0..MaxDocChunks] :
          /\ \A d \in DocIds : old[d] \in OldCounts(bodies[d])
          /\ store = UNION {OldRows(d, old[d]) : d \in DocIds}
    /\ skipExisting \in BOOLEAN
    /\ throwsOn \in ThrowSets
    /\ result = [EmptyResult EXCEPT !.totalSources = NumDocs]
    /\ cur = 1 /\ wpc = "start" /\ bfState = "running"
    /\ outcomes = [d \in DocIds |-> <<>>]
    /\ errorCalls = <<>>
    /\ faults = 0
    /\ progress = <<>>
    /\ cancelled = FALSE
    /\ ClassifyIdle /\ RpIdle /\ MoreIdle

BackfillNext ==
    \/ BfStart /\ UNCHANGED <<chunkVars, cancelled, clVars, rpVars, moreVars>>
    \/ BfCheckOk /\ UNCHANGED <<chunkVars, cancelled, clVars, rpVars, moreVars>>
    \/ BfCheckFail /\ UNCHANGED <<chunkVars, cancelled, clVars, rpVars, moreVars>>
    \/ BfLoadOk /\ UNCHANGED <<chunkVars, cancelled, clVars, rpVars, moreVars>>
    \/ BfLoadFail /\ UNCHANGED <<chunkVars, cancelled, clVars, rpVars, moreVars>>
    \/ BfBatchStep /\ UNCHANGED <<chunkVars, cancelled, clVars, rpVars, moreVars>>
    \/ BfEmbedReturned /\ UNCHANGED <<chunkVars, cancelled, clVars, rpVars, moreVars>>
    \/ BfEmbedRaised /\ UNCHANGED <<chunkVars, cancelled, clVars, rpVars, moreVars>>

SpecBackfill == BackfillInit /\ [][BackfillNext]_vars

\* a backfill run during which the caller may ask for it to stop
CancelNext ==
    \/ BackfillNext
    \/ BfCancel /\ UNCHANGED <<chunkVars, clVars, rpVars, moreVars>>

SpecCancel == BackfillInit /\ [][CancelNext]_vars

\* backfillEmbeddings({skipExisting: true}) with a callback that never
\* throws, over an empty table; further runs follow it
RunsInit ==
    /\ ChunkIdle /\ BpIdle
    /\ bodies \in [DocIds -> BodyKinds]
    /\ store = {}
    /\ skipExisting = TRUE
    /\ throwsOn = {}
    /\ result = [EmptyResult EXCEPT !.totalSources = NumDocs]
    /\ cur = 1 /\ wpc = "start" /\ bfState = "running"
    /\ outcomes = [d \in DocIds |-> <<>>]
    /\ errorCalls = <<>>
    /\ faults = 0
    /\ progress = <<>>
    /\ cancelled = FALSE
    /\ ClassifyIdle /\ RpIdle /\ GenIdle /\ EqIdle /\ PoolIdle /\ SearchIdle
    /\ bfRun = 1 /\ prevFailed = {} /\ ResearchIdle

\* lines 30-47: the run has ended and backfillEmbeddings is called again
\* with the same options, over the table the run has left
BfAgain ==
    /\ bfState \in {"returned", "raised"}
    /\ wpc = "done"
    /\ bfRun \in 1..(MaxRuns - 1)
    /\ bfRun' = bfRun + 1
    /\ prevFailed' = {d \in DocIds : \E k \in 1..Len(outcomes[d]) :
                                        outcomes[d][k] = "failed"}
    /\ result' = [EmptyResult EXCEPT !.totalSources = NumDocs]
    /\ cur' = 1 /\ wpc' = "start" /\ bfState' = "running"
    /\ outcomes' = [d \in DocIds |-> <<>>]
    /\ errorCalls' = <<>>
    /\ progress' = <<>>
    /\ UNCHANGED <<bodies, skipExisting, throwsOn, faults, store, bpVars>>

RunsNext ==
    \/ BfStart /\ UNCHANGED <<chunkVars, cancelled, clVars, rpVars, moreVars>>
    \/ BfCheckOk /\ UNCHANGED <<chunkVars, cancelled, clVars, rpVars, moreVars>>
    \/ BfCheckFail /\ UNCHANGED <<chunkVars, cancelled, clVars, rpVars, moreVars>>
    \/ BfLoadOk /\ UNCHANGED <<chunkVars, cancelled, clVars, rpVars, moreVars>>
    \/ BfLoadFail /\ UNCHANGED <<chunkVars, cancelled, clVars, rpVars, moreVars>>
    \/ BfBatchStep /\ UNCHANGED <<chunkVars, cancelled, clVars, rpVars, moreVars>>
    \/ BfEmbedReturned /\ UNCHANGED <<chunkVars, cancelled, clVars, rpVars, moreVars>>
    \/ BfEmbedRaised /\ UNCHANGED <<chunkVars, cancelled, clVars, rpVars, moreVars>>
    \/ BfAgain /\ UNCHANGED <<chunkVars, cancelled, clVars, rpVars, genVars,
                              eqVars, plVars, seVars, rtVars>>

SpecRuns == RunsInit /\ [][RunsNext]_vars

\* one call of either function on a source of up to MaxBatchChunks chunks
BatchInit ==
    /\ ChunkIdle /\ BfIdle
    /\ opts \in OptionChoices
    /\ bpTotal \in 0..MaxBatchChunks
    \* earlier calls, made with the same options, left whole batches
    /\ \E n \in {k \in 0..bpTotal : k % opts.batchSize = 0 \/ k = bpTotal} :
          store = OldRows(1, n)
    /\ bpFn \in {"materialized", "streaming"}
    /\ bpSource = 1 /\ consumed = 0
    /\ batch = <<>> /\ attempt = 0 /\ delay = 0 /\ lastError = NoError
    /\ embeddings = <<>> /\ totalProcessed = 0 /\ bpPc = "next"
    /\ bpError = NoError /\ calls = 0 /\ sleeps = <<>> /\ inserts = 0
    /\ ClassifyIdle /\ RpIdle /\ MoreIdle

BatchNext ==
    \/ BpNextBatch /\ UNCHANGED <<chunkVars, bfVars, cancelled, clVars, rpVars, moreVars>>
    \/ BpEmbedOk /\ UNCHANGED <<chunkVars, bfVars, cancelled, clVars, rpVars, moreVars>>
    \/ BpEmbedFail /\ UNCHANGED <<chunkVars, bfVars, cancelled, clVars, rpVars, moreVars>>
    \/ BpInsertOk /\ UNCHANGED <<chunkVars, bfVars, cancelled, clVars, rpVars, moreVars>>
    \/ BpInsertFail /\ UNCHANGED <<chunkVars, bfVars, cancelled, clVars, rpVars, moreVars>>
    \/ BpSleepDone /\ UNCHANGED <<chunkVars, bfVars, cancelled, clVars, rpVars, moreVars>>

SpecBatch == BatchInit /\ [][BatchNext]_vars

ChunkInit ==
    /\ ChunkStart /\ store = {} /\ BpIdle /\ BfIdle /\ ClassifyIdle /\ RpIdle
    /\ MoreIdle

ChunkNext ==
    \/ ChunkStep /\ UNCHANGED <<store, bpVars, bfVars, cancelled, clVars, rpVars, moreVars>>
    \/ ChunkReturn /\ UNCHANGED <<store, bpVars, bfVars, cancelled, clVars, rpVars, moreVars>>

SpecChunk == ChunkInit /\ [][ChunkNext]_vars

\* semanticChunk(text): targetSize = 512 and overlapRatio = 0.15, lines 37-38
DefaultTargetSize == 512
DefaultOverlapPct == 15

\* documents of the size the defaults are made for: a run of letters (none,
\* 300, 2000, 2400 or MaxDefaultLen of them) followed by a short text over
\* the full alphabet
DefaultTexts ==
    {Filler(n) \o t : n \in {0, 300, 2000, 2400, MaxDefaultLen},
                      t \in SeqsUpTo(RichChars, MaxTailLen)}

\* semanticChunk(text) is called with the default parameters
DefaultsInit ==
    /\ text \in DefaultTexts
    /\ targetSize = DefaultTargetSize
    /\ overlapPct = DefaultOverlapPct
    /\ position = 0 /\ chunkIndex = 0 /\ chunks = <<>> /\ cpc = "loop"
    /\ currentHeading = <<>> /\ lastIndex = 0
    /\ store = {} /\ BpIdle /\ BfIdle /\ ClassifyIdle /\ RpIdle /\ MoreIdle

SpecDefaults == DefaultsInit /\ [][ChunkNext]_vars

\* semanticChunk and semanticChunkGenerator called with the same arguments
\* the empty text, texts with headings, and texts with boundaries around
\* the first split
LazyTexts ==
    {<<>>} \cup HeadingTexts \cup
    {Filler(3) \o t \o Filler(n) :
        t \in SeqsUpTo(RichChars, MaxTailLen), n \in {0, MaxFill}}

LazyInit ==
    /\ text \in LazyTexts
    /\ targetSize \in 1..MaxTargetSize
    /\ overlapPct \in OverlapPcts
    /\ position = 0 /\ chunkIndex = 0 /\ chunks = <<>> /\ cpc = "loop"
    /\ currentHeading = <<>> /\ lastIndex = 0
    /\ store = {} /\ BpIdle /\ BfIdle /\ ClassifyIdle /\ RpIdle
    /\ GenStart /\ EqIdle /\ PoolIdle /\ SearchIdle /\ ExtIdle

LazyNext ==
    \/ ChunkStep /\ UNCHANGED <<store, bpVars, bfVars, cancelled, clVars, rpVars,
                                genVars, eqVars, plVars, seVars,
                                extVars>>
    \/ ChunkReturn /\ UNCHANGED <<store, bpVars, bfVars, cancelled, clVars, rpVars,
                                  genVars, eqVars, plVars, seVars,
                                  extVars>>
    \/ GenStep /\ UNCHANGED <<chunkVars, store, bpVars, bfVars, cancelled, clVars,
                              rpVars, eqVars, plVars, seVars,
                              extVars>>
    \/ GenReturn /\ UNCHANGED <<chunkVars, store, bpVars, bfVars, cancelled, clVars,
                                rpVars, eqVars, plVars, seVars,
                                extVars>>

SpecLazy == LazyInit /\ [][LazyNext]_vars

\* isRetryableError called on its own with any of the ProbeErrors
ProbeInit ==
    /\ ChunkIdle /\ store = {} /\ BpIdle /\ BfIdle /\ RpIdle /\ ClassifyInit
    /\ MoreIdle

ProbeNext ==
    Classify /\ UNCHANGED <<chunkVars, store, bpVars, bfVars, cancelled, rpVars, moreVars>>

SpecClassify == ProbeInit /\ [][ProbeNext]_vars

(***************************************************************************)
(* embeddings.ts: processSourceInBatches and                               *)
(* processSourceInBatchesStreaming on the same input and the same answers  *)
(***************************************************************************)
\* the other of the two functions
OtherFn(fn) == IF fn = "materialized" THEN "streaming" ELSE "materialized"

\* the options of the comparison: batchSize >= 1, and the retries that let
\* a batch fail for good, fail and recover, or fail twice
EquivOptions ==
    [batchSize : 1..MaxBatchSize, maxRetries : 0..MaxEquivRetries,
     initialDelay : {DefaultInitialDelay}, maxDelay : {SmallMaxDelay},
     backoffMultiplier : {DefaultBackoffMultiplier}]

\* what a step of the batch processor shows outside the function: the
\* batch it formed, or the call it made on which batch, what the provider
\* or the store answered, and the sleep that followed
StepEvent ==
    LET ok == \/ bpPc = "embed" /\ bpPc' = "insert"
              \/ bpPc = "insert" /\ inserts' = inserts + 1
    IN  [call    |-> bpPc,
         batch   |-> IF bpPc = "next" /\ consumed' = consumed THEN <<>>
                     ELSE batch',
         vectors |-> IF bpPc = "embed" /\ ok THEN embeddings' ELSE <<>>,
         error   |-> IF bpPc \in {"embed", "insert"} /\ ~ok THEN lastError'
                     ELSE NoError,
         slept   |-> IF bpPc' = "sleep" THEN sleeps'[Len(sleeps')] ELSE -1]

\* in the second run the provider and the store answer a call as they
\* answered the call the first run made at the same point on the same batch
SameAnswers ==
    LET n == Len(trace) + 1
    IN  (/\ eqPhase = "second"
         /\ n <= Len(firstRun.trace)
         /\ firstRun.trace[n].call = bpPc
         /\ firstRun.trace[n].batch = StepEvent.batch)
            => StepEvent = firstRun.trace[n]

\* one function is called on a source of up to MaxBatchChunks chunks
EquivInit ==
    /\ ChunkIdle /\ BfIdle /\ ClassifyIdle /\ RpIdle /\ GenIdle /\ PoolIdle
    /\ SearchIdle /\ ExtIdle
    /\ opts \in EquivOptions
    /\ bpTotal \in 0..MaxBatchChunks
    /\ store \in {{}, OldRows(1, bpTotal)}
    /\ bpFn \in {"materialized", "streaming"}
    /\ bpSource = 1 /\ consumed = 0
    /\ batch = <<>> /\ attempt = 0 /\ delay = 0 /\ lastError = NoError
    /\ embeddings = <<>> /\ totalProcessed = 0 /\ bpPc = "next"
    /\ bpError = NoError /\ calls = 0 /\ sleeps = <<>> /\ inserts = 0
    /\ eqPhase = "first" /\ trace = <<>> /\ firstRun = NoRun /\ store0 = store

\* a step of the function that is running
EquivStep ==
    /\ eqPhase \in {"first", "second"}
    /\ BpStep
    /\ SameAnswers
    /\ trace' = Append(trace, StepEvent)
    /\ UNCHANGED <<eqPhase, firstRun, store0>>

\* the first function has returned or raised: the table is put back and the
\* other function is called with the same source, chunks and options
EquivSecond ==
    /\ eqPhase = "first"
    /\ bpPc \in {"returned", "raised"}
    /\ firstRun' = [trace |-> trace, store |-> store, end |-> bpPc,
                    error |-> bpError]
    /\ store' = store0
    /\ BpEnter(OtherFn(bpFn), bpSource, bpTotal, opts)
    /\ trace' = <<>>
    /\ eqPhase' = "second"
    /\ UNCHANGED store0

EquivNext ==
    \/ EquivStep /\ UNCHANGED <<chunkVars, bfVars, cancelled, clVars, rpVars,
                                genVars, plVars, seVars,
                                extVars>>
    \/ EquivSecond /\ UNCHANGED <<chunkVars, bfVars, cancelled, clVars, rpVars,
                                  genVars, plVars, seVars,
                                  extVars>>

SpecEquiv == EquivInit /\ [][EquivNext]_vars

(***************************************************************************)
(* backfill-embeddings.ts: the tasks of backfillEmbeddings under p-limit   *)
(***************************************************************************)
\* where a task is while p-limit counts it as active: lines 52-74 (the
\* check for existing rows), 78-112 (the source is being loaded) and
\* 114-159 (its body is held and embedded)
InFlightStages == {"check", "load", "embed"}
\* how a task ends: lines 65-74, 89-111 and 132-141; 143-159; 160-184
SettledStages == {"skipped", "processed", "failed"}

\* p-limit that starts every task at once
MayStartAlways(active) == TRUE

\* p-limit starts a queued task while fewer than `concurrency` run
MayStart(active) == active < PoolLimit

\* the positions of minimalSources whose task is at one of the stages S
TasksAt(S) == {i \in 1..Len(stage) : stage[i] \in S}

\* lines 44-47 and 187-189: the ids are read and every one of them is
\* queued, p-limit having started none yet
PoolInit ==
    /\ ChunkIdle /\ store = {} /\ BpIdle /\ BfIdle /\ ClassifyIdle /\ RpIdle
    /\ GenIdle /\ EqIdle /\ SearchIdle /\ ExtIdle
    /\ \E n \in 0..MaxPoolDocs :
          /\ minimalSources = [i \in 1..n |-> i]
          /\ stage = [i \in 1..n |-> "queued"]
    /\ activeCount = 0

\* p-limit takes the task at the head of its queue and runs it: line 49
PoolStart ==
    /\ TasksAt({"queued"}) # {}
    /\ MayStart(activeCount)
    /\ stage' = [stage EXCEPT ![SetMin(TasksAt({"queued"}))] = "check"]
    /\ activeCount' = activeCount + 1
    /\ UNCHANGED minimalSources

\* lines 60-86 and 114-120: a task goes on to its next await
PoolAdvance ==
    /\ \E i \in TasksAt({"check", "load"}) :
          stage' = [stage EXCEPT ![i] = IF @ = "check" THEN "load" ELSE "embed"]
    /\ UNCHANGED <<minimalSources, activeCount>>

\* the promise of a task settles, by a return or through the catch block,
\* and p-limit counts it out
PoolSettle ==
    /\ \E i \in TasksAt(InFlightStages) : \E how \in SettledStages :
          /\ how = "processed" => stage[i] = "embed"
          /\ stage' = [stage EXCEPT ![i] = how]
    /\ activeCount' = activeCount - 1
    /\ UNCHANGED minimalSources

PoolNext ==
    \/ PoolStart /\ UNCHANGED <<chunkVars, store, bpVars, bfVars, cancelled, clVars,
                                rpVars, genVars, eqVars, seVars,
                                extVars>>
    \/ PoolAdvance /\ UNCHANGED <<chunkVars, store, bpVars, bfVars, cancelled,
                                  clVars, rpVars, genVars, eqVars, seVars,
                                  extVars>>
    \/ PoolSettle /\ UNCHANGED <<chunkVars, store, bpVars, bfVars, cancelled,
                                 clVars, rpVars, genVars, eqVars, seVars,
                                 extVars>>

SpecPool == PoolInit /\ [][PoolNext]_vars

(***************************************************************************)
(* search.ts and the two match functions of the database                   *)
(***************************************************************************)
\* options.threshold ?? 0.7, in hundredths, and options.limit ?? 10
DefaultThreshold == 70
DefaultLimit == 10
\* line 63: 0.05 for every term of the query the content holds
KeywordBoost == 5

\* a ?? b
OrElse(value, default) == IF value = Absent THEN default ELSE value

\* generateEmbedding throws before or after the provider is called
NotConfigured ==
    [statusCode |-> 0, code |-> "", message |-> "Voyage AI API key not configured"]
NoEmbeddingReturned ==
    [statusCode |-> 0, code |-> "", message |-> "No embedding returned from Voyage AI"]
EmbedFailures == {NotConfigured, RateLimited, NoEmbeddingReturned}

\* `essay_id` in the body of match_source_chunks_enhanced names both the
\* parameter and the column of essay_sources: plpgsql refuses the query
\* (variable_conflict = error, the default), reads the parameter
\* (use_variable) or reads the column (use_column)
AmbiguousColumn ==
    [statusCode |-> 0, code |-> "42702",
     message |-> "column reference essay_id is ambiguous"]
ConflictModes == {"error", "use_variable", "use_column"}

\* the chunks of the table: the first belongs to source 1, the others to
\* source 2
SourceOfChunk(i) == IF i = 1 THEN 1 ELSE 2
SimValues == {60, 70, 80}
HitValues == {0, 3}
\* column metadata (jsonb) of the chunks, as the set of the key-value pairs
\* it holds: the first holds the pair topic, the second is NULL, the others
\* hold the pair kind
MetadataOfChunk(i) ==
    IF i = 1 THEN [null |-> FALSE, pairs |-> {"topic"}]
    ELSE IF i = 2 THEN [null |-> TRUE, pairs |-> {}]
    ELSE [null |-> FALSE, pairs |-> {"kind"}]
ChunkTables ==
    {{[id |-> i, sourceId |-> SourceOfChunk(i), similarity |-> sim[i],
       hits |-> hit[i]] : i \in 1..n} :
        n \in 0..MaxSearchRows, sim \in [1..MaxSearchRows -> SimValues],
        hit \in [1..MaxSearchRows -> HitValues]}
\* no link; source 1 in essay 1; source 1 in essays 1 and 2; source 2 in
\* essay 2
LinkTables == {{}, {<<1, 1>>}, {<<1, 1>>, <<2, 1>>}, {<<2, 2>>}}

\* FROM source_chunks sc JOIN sources s ... LEFT JOIN essay_sources es ON
\* s.id = es.source_id: a chunk once per link of its source, and once
\* with es.essay_id null when the source has no link
Joined(rows, links) ==
    LET essaysOf(src) ==
            IF {l \in links : l[2] = src} = {} THEN {Null}
            ELSE {l[1] : l \in {k \in links : k[2] = src}}
    IN  UNION {{[row |-> r, essay |-> e] : e \in essaysOf(r.sourceId)} :
                  r \in rows}

\* PassesThreshold with >= in place of >
PassesThresholdLoose(similarity, threshold) == similarity >= threshold

\* 1 - (sc.embedding <=> query_embedding) > match_threshold
PassesThreshold(similarity, threshold) == similarity > threshold

\* lines 129-132: (essay_id IS NULL OR es.essay_id = essay_id), with
\* `essay_id` read as the parameter or as the column
PassesEssay(mode, essayParam, esEssay) ==
    IF mode = "use_column" THEN TRUE
    ELSE essayParam = Null \/ (esEssay # Null /\ esEssay = essayParam)

\* options.filterMetadata is not given
NoFilter == [given |-> FALSE, pairs |-> {}]

\* part_002 lines 92-94: options.filterMetadata ? JSON.stringify(...) : null;
\* an object is truthy, the empty one too. What is sent is a string, and the
\* parameter metadata_filter jsonb takes a JSON string as the jsonb string
\* scalar that holds the text, not as the object the text spells
MetadataFilterOf(filterMetadata) ==
    IF filterMetadata.given
    THEN [null |-> FALSE, scalar |-> TRUE, pairs |-> filterMetadata.pairs]
    ELSE [null |-> TRUE, scalar |-> FALSE, pairs |-> {}]

\* lines 133-136: (metadata_filter IS NULL OR sc.metadata @> metadata_filter);
\* `@>` on a NULL metadata is NULL, and the row is not kept; an object
\* contains an object whose pairs it holds, and contains no string scalar
PassesMetadata(metadata, filter) ==
    \/ filter.null
    \/ /\ ~metadata.null
       /\ ~filter.scalar
       /\ filter.pairs \subseteq metadata.pairs

\* the rows the WHERE clause keeps: of match_source_chunks_enhanced ...
EnhancedMatches(rows, links, threshold, essayParam, mode, filter) ==
    {j \in Joined(rows, links) :
        /\ PassesThreshold(j.row.similarity, threshold)
        /\ PassesEssay(mode, essayParam, j.essay)
        /\ PassesMetadata(MetadataOfChunk(j.row.id), filter)}

\* ... and of match_source_chunks
SimpleMatches(rows, threshold) ==
    {[row |-> r, essay |-> Null] :
        r \in {x \in rows : PassesThreshold(x.similarity, threshold)}}

\* ORDER BY sc.embedding <=> query_embedding LIMIT match_count: the first
\* match_count rows of any ordering by falling similarity
Answers(matches, count) ==
    LET n == Cardinality(matches)
        orders == {q \in [1..n -> matches] :
                      /\ \A i \in 1..n : \A j \in 1..n : q[i] = q[j] => i = j
                      /\ \A i \in 1..(n - 1) :
                            q[i].row.similarity >= q[i + 1].row.similarity}
    IN  {[k \in 1..Min(count, n) |-> q[k].row] : q \in orders}

\* lines 62-73: similarity + keyword score
FinalScore(r) == r.similarity + KeywordBoost * r.hits

\* lines 55-75: Array.prototype.sort, which is stable, with the comparator
\* bFinalScore - aFinalScore
rerankResults(results) ==
    LET before(i, j) ==
            \/ FinalScore(results[i]) > FinalScore(results[j])
            \/ FinalScore(results[i]) = FinalScore(results[j]) /\ i < j
        rank(i) == 1 + Cardinality({j \in 1..Len(results) : before(j, i)})
    IN  [k \in 1..Len(results) |->
            results[CHOOSE i \in 1..Len(results) : rank(i) = k]]

\* the options a caller gives; searchSourceChunks takes neither rerank nor
\* filterMetadata; a filter is tried without rerank, which works on the
\* rows the query has answered
SearchOptionChoices(fn) ==
    {o \in [essayId : {Absent, 1}, limit : {Absent, 0, 2},
            threshold : {Absent, 60},
            rerank : IF fn = "enhanced" THEN BOOLEAN ELSE {FALSE},
            filterMetadata :
               IF fn = "enhanced"
               THEN {NoFilter, [given |-> TRUE, pairs |-> {}],
                     [given |-> TRUE, pairs |-> {"topic"}]}
               ELSE {NoFilter}] :
        o.filterMetadata.given => ~o.rerank}

\* enhancedSearch(query, options) or searchSourceChunks(query, options) is
\* called
SearchInit ==
    /\ ChunkIdle /\ store = {} /\ BpIdle /\ BfIdle /\ ClassifyIdle /\ RpIdle
    /\ GenIdle /\ EqIdle /\ PoolIdle /\ ExtIdle
    /\ seFn \in {"enhanced", "simple"}
    /\ seOpts \in SearchOptionChoices(seFn)
    /\ seRows \in ChunkTables
    /\ seLinks \in LinkTables
    /\ seMode \in (IF seFn = "enhanced" THEN ConflictModes ELSE {"error"})
    /\ sePc = "embed" /\ seEmbed = NoError /\ seData = <<>>
    /\ seError = NoError /\ seResult = <<>>

\* lines 81-85 and 152-156: generateEmbedding resolves and the rpc is sent
SearchEmbedOk ==
    /\ sePc = "embed"
    /\ seEmbed' = NoError
    /\ sePc' = "rpc"
    /\ UNCHANGED <<seFn, seOpts, seRows, seLinks, seMode, seData, seError,
                   seResult>>

\* generateEmbedding throws, and so does the search
SearchEmbedFail ==
    /\ sePc = "embed"
    /\ \E err \in EmbedFailures : seEmbed' = err
    /\ sePc' = "raised"
    /\ UNCHANGED <<seFn, seOpts, seRows, seLinks, seMode, seData, seError,
                   seResult>>

\* SearchEnd that returns the rows whatever the error
SearchEndSwallow(err) == "returned"

\* lines 97-99 and 164-166: if (error) throw error
SearchEnd(err) == IF err # NoError THEN "raised" ELSE "returned"

\* the rpc answers with rows: lines 101-135 and 168-186
SearchRpcOk ==
    /\ sePc = "rpc"
    /\ seFn = "enhanced" => seMode # "error"
    /\ LET threshold == OrElse(seOpts.threshold, DefaultThreshold)
           count == OrElse(seOpts.limit, DefaultLimit)
           essayParam == IF seOpts.essayId = Absent THEN Null ELSE seOpts.essayId
           matches == IF seFn = "enhanced"
                      THEN EnhancedMatches(seRows, seLinks, threshold,
                                           essayParam, seMode,
                                           MetadataFilterOf(seOpts.filterMetadata))
                      ELSE SimpleMatches(seRows, threshold)
       IN  \E data \in Answers(matches, count) :
              /\ seData' = data
              /\ seResult' = IF seFn = "enhanced" /\ seOpts.rerank /\ Len(data) > 0
                             THEN rerankResults(data) ELSE data
    /\ seError' = NoError
    /\ sePc' = SearchEnd(NoError)
    /\ UNCHANGED <<seFn, seOpts, seRows, seLinks, seMode, seEmbed>>

\* the rpc answers with an error: the store cannot be reached, or plpgsql
\* refuses the ambiguous `essay_id`
SearchRpcFail ==
    /\ sePc = "rpc"
    /\ \E err \in {StoreUnavailable} \cup
                   (IF seFn = "enhanced" /\ seMode = "error"
                    THEN {AmbiguousColumn} ELSE {}) :
          /\ seError' = err
          /\ sePc' = SearchEnd(err)
    /\ seData' = <<>>
    /\ seResult' = <<>>
    /\ UNCHANGED <<seFn, seOpts, seRows, seLinks, seMode, seEmbed>>

SearchNext ==
    \/ SearchEmbedOk /\ UNCHANGED <<chunkVars, store, bpVars, bfVars, cancelled,
                                    clVars, rpVars, genVars, eqVars, plVars,
                                    extVars>>
    \/ SearchEmbedFail /\ UNCHANGED <<chunkVars, store, bpVars, bfVars, cancelled,
                                      clVars, rpVars, genVars, eqVars, plVars,
                                      extVars>>
    \/ SearchRpcOk /\ UNCHANGED <<chunkVars, store, bpVars, bfVars, cancelled,
                                  clVars, rpVars, genVars, eqVars, plVars,
                                  extVars>>
    \/ SearchRpcFail /\ UNCHANGED <<chunkVars, store, bpVars, bfVars, cancelled,
                                    clVars, rpVars, genVars, eqVars, plVars,
                                    extVars>>

SpecSearch == SearchInit /\ [][SearchNext]_vars

(***************************************************************************)
(* research.ts: researchTopic from the check after deduplication on        *)
(***************************************************************************)
\* config.research.concurrency and config.research.maxRetries
ResearchConcurrency == 2
ResearchMaxRetries == 3

\* the tasks of tasks.slice(i, i + concurrency)
BatchAt(i) == {k \in 1..newUrls : i < k /\ k <= i + ResearchConcurrency}

\* p-limit's next(): the task at the head of the queue is started in the
\* place of one that has settled
StartNext(stages) ==
    LET queued == {k \in 1..Len(stages) : stages[k] = "queued"}
    IN  IF queued = {} THEN stages
        ELSE [stages EXCEPT ![SetMin(queued)] = "running"]

\* the attempts after next(): the task just started is called with the
\* default attempt = 1
AttemptsOf(stages, attempts) ==
    [k \in 1..Len(stages) |->
        IF stages[k] = "running" /\ attempts[k] = 0 THEN 1 ELSE attempts[k]]

\* lines 257-273 after a break or the end of the loop
RtReturn(seen) == rtPc' = "returned" /\ cancelSeen' = seen

\* lines 232-255: Promise.all(batch) has resolved for the slice at i, with
\* the tasks as in `stages`: the results are counted and, before a further
\* slice, shouldCancel (which answers `asked`) is called at line 243 and
\* the cooldown begins
RtCounted(i, stages, asked) ==
    /\ articlesArchived' = articlesArchived +
          Cardinality({k \in BatchAt(i) : stages[k] = "saved"})
    /\ articlesFailed' = articlesFailed +
          Cardinality({k \in BatchAt(i) : stages[k] = "failed"})
    /\ IF i + ResearchConcurrency < newUrls
       THEN /\ rtI' = i
            /\ IF asked THEN RtReturn(TRUE)
               ELSE rtPc' = "cooldown" /\ UNCHANGED cancelSeen
       ELSE /\ rtI' = i + ResearchConcurrency
            /\ RtReturn(cancelSeen)

\* deduplication has left 1..MaxNewUrls new URLs and has linked up to
\* MaxLinked others
ResearchInit ==
    /\ ChunkIdle /\ store = {} /\ BpIdle /\ BfIdle /\ ClassifyIdle /\ RpIdle
    /\ GenIdle /\ EqIdle /\ PoolIdle /\ SearchIdle /\ RunsIdle
    /\ newUrls \in 1..MaxNewUrls
    /\ articlesLinked \in 0..MaxLinked
    /\ taskStage = <<>> /\ taskAttempt = <<>> /\ retryTimers = {}
    /\ rtPc = "dedup" /\ rtI = 0
    /\ articlesArchived = 0 /\ articlesFailed = 0
    /\ cancelAsked = FALSE /\ cancelSeen = FALSE

\* the caller's predicate turns true between two turns of the event loop
RtAskCancel ==
    /\ rtPc \in {"dedup", "await", "cooldown"}
    /\ ~cancelAsked
    /\ cancelAsked' = TRUE
    /\ UNCHANGED <<newUrls, articlesLinked, taskStage, taskAttempt, retryTimers,
                   rtPc, rtI, articlesArchived, articlesFailed, cancelSeen>>

\* lines 159-232, one turn: the check after deduplication, which returns
\* articlesLinked when it answers true; articlesArchived starts at
\* articlesLinked; the tasks are handed to p-limit, and the first
\* `concurrency` of them are started and report to onProgress; the first
\* pass of the loop calls shouldCancel again (line 226), which may answer
\* true by now, and breaks or reaches Promise.all
RtBegin ==
    /\ rtPc = "dedup"
    /\ articlesArchived' = articlesLinked
    /\ IF cancelAsked
       THEN RtReturn(TRUE) /\ UNCHANGED <<taskStage, taskAttempt, cancelAsked>>
       ELSE /\ taskStage' = [k \in 1..newUrls |->
                               IF k <= ResearchConcurrency THEN "running"
                               ELSE "queued"]
            /\ taskAttempt' = [k \in 1..newUrls |->
                                 IF k <= ResearchConcurrency THEN 1 ELSE 0]
            /\ \E turned \in BOOLEAN :
                  /\ cancelAsked' = turned
                  /\ IF turned THEN RtReturn(TRUE)
                     ELSE rtPc' = "await" /\ UNCHANGED cancelSeen
    /\ UNCHANGED <<newUrls, articlesLinked, retryTimers, rtI, articlesFailed>>

\* lines 180-199 and 216-217: processArticleWithRetry resolves for URL k,
\* with success: true after saveResearchArticle or with success: false, and
\* p-limit starts the next task of its queue; when that settles the slice
\* researchTopic awaits, Promise.all resolves in the same turn
RtSettle ==
    /\ \E k \in 1..Len(taskStage) : \E outcome \in {"saved", "failed"} :
          /\ taskStage[k] = "running"
          /\ k \notin retryTimers
          /\ LET stages == StartNext([taskStage EXCEPT ![k] = outcome])
             IN  /\ taskStage' = stages
                 /\ taskAttempt' = AttemptsOf(stages, taskAttempt)
                 /\ IF /\ rtPc = "await"
                       /\ \A j \in BatchAt(rtI) : stages[j] \in {"saved", "failed"}
                    THEN RtCounted(rtI, stages, cancelAsked)
                    ELSE UNCHANGED <<rtPc, rtI, articlesArchived, articlesFailed,
                                     cancelSeen>>
    /\ UNCHANGED <<newUrls, articlesLinked, retryTimers, cancelAsked>>

\* lines 200-212: extractArticle, summarizeArticle or saveResearchArticle
\* throws a rate limit error before the last attempt: the task sets a timer
\* of attempt * 5000 ms and waits for it, keeping its p-limit slot
RtRateLimited ==
    /\ \E k \in 1..Len(taskStage) :
          /\ taskStage[k] = "running"
          /\ k \notin retryTimers
          /\ taskAttempt[k] < ResearchMaxRetries
          /\ retryTimers' = retryTimers \cup {k}
    /\ UNCHANGED <<newUrls, articlesLinked, taskStage, taskAttempt, rtPc, rtI,
                   articlesArchived, articlesFailed, cancelAsked, cancelSeen>>

\* line 213: the timer fires and the task calls processArticleWithRetry
\* with attempt + 1
RtRetry ==
    /\ \E k \in retryTimers :
          /\ retryTimers' = retryTimers \ {k}
          /\ taskAttempt' = [taskAttempt EXCEPT ![k] = @ + 1]
    /\ UNCHANGED <<newUrls, articlesLinked, taskStage, rtPc, rtI,
                   articlesArchived, articlesFailed, cancelAsked, cancelSeen>>

\* lines 251-253 and 225-255: the cooldown is over, i += concurrency, and
\* shouldCancel is asked at the top of the loop; when the tasks of the
\* slice have settled during the cooldown, Promise.all resolves in the same
\* turn, and the predicate may answer true at line 243 after it answered
\* false at line 226
RtCooldownDone ==
    /\ rtPc = "cooldown"
    /\ LET i == rtI + ResearchConcurrency
       IN  IF cancelAsked
           THEN /\ rtI' = i
                /\ RtReturn(TRUE)
                /\ UNCHANGED <<articlesArchived, articlesFailed, cancelAsked>>
           ELSE IF \A j \in BatchAt(i) : taskStage[j] \in {"saved", "failed"}
           THEN \E turned \in (IF i + ResearchConcurrency < newUrls
                               THEN BOOLEAN ELSE {FALSE}) :
                   /\ cancelAsked' = turned
                   /\ RtCounted(i, taskStage, turned)
           ELSE /\ rtI' = i
                /\ rtPc' = "await"
                /\ UNCHANGED <<articlesArchived, articlesFailed, cancelAsked,
                               cancelSeen>>
    /\ UNCHANGED <<newUrls, articlesLinked, taskStage, taskAttempt, retryTimers>>

ResearchNext ==
    \/ RtAskCancel /\ UNCHANGED <<chunkVars, store, bpVars, bfVars, cancelled,
                                  clVars, rpVars, genVars, eqVars, plVars,
                                  seVars, runVars>>
    \/ RtBegin /\ UNCHANGED <<chunkVars, store, bpVars, bfVars, cancelled,
                              clVars, rpVars, genVars, eqVars, plVars,
                              seVars, runVars>>
    \/ RtSettle /\ UNCHANGED <<chunkVars, store, bpVars, bfVars, cancelled,
                               clVars, rpVars, genVars, eqVars, plVars,
                               seVars, runVars>>
    \/ RtRateLimited /\ UNCHANGED <<chunkVars, store, bpVars, bfVars, cancelled,
                                    clVars, rpVars, genVars, eqVars, plVars,
                                    seVars, runVars>>
    \/ RtRetry /\ UNCHANGED <<chunkVars, store, bpVars, bfVars, cancelled,
                                  clVars, rpVars, genVars, eqVars, plVars,
                                  seVars, runVars>>
    \/ RtCooldownDone /\ UNCHANGED <<chunkVars, store, bpVars, bfVars, cancelled,
                                     clVars, rpVars, genVars, eqVars, plVars,
                                     seVars, runVars>>

SpecResearch == ResearchInit /\ [][ResearchNext]_vars

(***************************************************************************)
(* backfill-embeddings.ts: processSource and reprocessSource               *)
(***************************************************************************)
\* Error(`Source not found: ...`), line 198
SourceNotFound == [statusCode |-> 0, code |-> "", message |-> "Source not found"]
\* Error(`Source has no content: ...`), line 202
SourceHasNoContent ==
    [statusCode |-> 0, code |-> "", message |-> "Source has no content"]
\* Error(`No chunks generated for source: ...`), line 210
NoChunksGenerated ==
    [statusCode |-> 0, code |-> "", message |-> "No chunks generated for source"]

\* the source processSource is called for
RpSource == 1

\* the contents of that source: none, or a run of letters (none, MaxFill or
\* MaxLongFill of them) followed by a short text over the two-letter alphabet
ReprocessTexts ==
    {Filler(n) \o t : n \in {0, MaxFill, MaxLongFill},
                      t \in SeqsUpTo(PlainChars, MaxTailLen)}

\* deleteBySourceId that deletes nothing
DeleteRowsNone(st, s) == st

\* sourceChunks.deleteBySourceId: delete ... where source_id = s
DeleteRows(st, s) == st \ RowsOf(st, s)

\* processSource throws err
RpFail(err) == rpc' = "failed" /\ rpError' = err

\* line 195: sources.getById answers with the row, answers null when the
\* table has no such row, or throws the error of the store; lines 197-203
RpLoad ==
    /\ rpc = "load"
    /\ \/ /\ IF ~sourceRow THEN RpFail(SourceNotFound)
             ELSE IF text = <<>> THEN RpFail(SourceHasNoContent)
             ELSE rpc' = "delete" /\ UNCHANGED rpError
          /\ UNCHANGED faults
       \/ faults < MaxFaults /\ faults' = faults + 1 /\ RpFail(StoreUnavailable)
    /\ UNCHANGED <<chunkVars, store, bpVars, runs, firstRows, rowsBefore, sourceRow>>
    /\ UNCHANGED <<bodies, skipExisting, throwsOn, result, cur, wpc, bfState,
                   outcomes, errorCalls, progress>>

\* line 205: deleteBySourceId resolves, and semanticChunk is entered (line
\* 207), or it throws the error of the store
RpDelete ==
    /\ rpc = "delete"
    /\ \/ /\ store' = DeleteRows(store, RpSource)
          /\ rpc' = "chunk"
          /\ position' = 0 /\ chunkIndex' = 0 /\ chunks' = <<>> /\ cpc' = "loop"
          /\ currentHeading' = <<>> /\ lastIndex' = 0
          /\ UNCHANGED <<faults, rpError>>
       \/ /\ faults < MaxFaults /\ faults' = faults + 1
          /\ RpFail(StoreUnavailable)
          /\ UNCHANGED <<store, position, chunkIndex, chunks, cpc,
                         currentHeading, lastIndex>>
    /\ UNCHANGED <<text, targetSize, overlapPct, bpVars, runs, firstRows,
                   rowsBefore, sourceRow>>
    /\ UNCHANGED <<bodies, skipExisting, throwsOn, result, cur, wpc, bfState,
                   outcomes, errorCalls, progress>>

\* line 207: a pass of semanticChunk's loop
RpChunkStep ==
    /\ rpc = "chunk"
    /\ ChunkStep \/ ChunkReturn
    /\ UNCHANGED <<store, bpVars, bfVars, rpVars>>

\* lines 209-213: semanticChunk has returned
RpChunked ==
    /\ rpc = "chunk"
    /\ cpc = "done"
    /\ IF Len(chunks) = 0
       THEN RpFail(NoChunksGenerated) /\ UNCHANGED bpVars
       ELSE /\ BpEnter("materialized", RpSource, Len(chunks), DefaultOptions)
            /\ rpc' = "batch"
            /\ UNCHANGED rpError
    /\ UNCHANGED <<chunkVars, store, bfVars, runs, firstRows, rowsBefore, sourceRow>>

\* line 213: a step of processSourceInBatches
RpBatchStep ==
    /\ rpc = "batch"
    /\ BpStep
    /\ IF InjectedFault
       THEN faults < MaxFaults /\ faults' = faults + 1
       ELSE faults' = faults
    /\ UNCHANGED <<chunkVars, rpVars>>
    /\ UNCHANGED <<bodies, skipExisting, throwsOn, result, cur, wpc, bfState,
                   outcomes, errorCalls, progress>>

\* processSourceInBatches has returned, and so does processSource
RpReturned ==
    /\ rpc = "batch"
    /\ bpPc = "returned"
    /\ BpLeave
    /\ rpc' = "done"
    /\ firstRows' = IF runs = 1 THEN RowsOf(store, RpSource) ELSE firstRows
    /\ UNCHANGED <<chunkVars, store, bfVars, runs, rpError, rowsBefore, sourceRow>>

\* processSourceInBatches has raised, and processSource passes the error on
RpRaised ==
    /\ rpc = "batch"
    /\ bpPc = "raised"
    /\ BpLeave
    /\ RpFail(bpError)
    /\ UNCHANGED <<chunkVars, store, bfVars, runs, firstRows, rowsBefore, sourceRow>>

\* sources.delete(RpSource), called when no call of reprocessSource is in
\* progress: the row of the source goes and, source_chunks.source_id being
\* declared REFERENCES sources(id) ON DELETE CASCADE, so do its chunks; or
\* the store answers with an error and delete throws it
SourcesDelete ==
    /\ rpc = "done"
    /\ sourceRow
    /\ \/ /\ sourceRow' = FALSE
          /\ store' = DeleteRows(store, RpSource)
          /\ rpc' = "none"
          /\ UNCHANGED faults
       \/ /\ faults < MaxFaults /\ faults' = faults + 1
          /\ UNCHANGED <<sourceRow, store, rpc>>
    /\ UNCHANGED <<chunkVars, bpVars, runs, firstRows, rpError, rowsBefore>>
    /\ UNCHANGED <<bodies, skipExisting, throwsOn, result, cur, wpc, bfState,
                   outcomes, errorCalls, progress>>

\* reprocessSource is called once more for the same source
RpAgain ==
    /\ rpc \in {"done", "none"}
    /\ runs < MaxRuns
    /\ runs' = runs + 1
    /\ rpc' = "load"
    /\ rowsBefore' = RowsOf(store, RpSource)
    /\ UNCHANGED <<chunkVars, store, bpVars, bfVars, firstRows, rpError,
                   sourceRow>>

\* lines 216-218: reprocessSource(RpSource) is called for a source that has
\* no rows, the rows of a shorter text or the rows of a longer one, or for
\* a source the table does not hold (and that has no chunks then); line
\* 207 calls semanticChunk with the text alone, so targetSize and
\* overlapRatio are the defaults
ReprocessInit ==
    /\ text \in ReprocessTexts
    /\ targetSize = DefaultTargetSize
    /\ overlapPct = DefaultOverlapPct
    /\ sourceRow \in BOOLEAN
    /\ ~sourceRow => (store = {} /\ text = <<>>)
    /\ position = 0 /\ chunkIndex = 0 /\ chunks = <<>> /\ cpc = "done"
    /\ currentHeading = <<>> /\ lastIndex = 0
    /\ store \in {OldRows(RpSource, n) : n \in {0, MaxBatchChunks, MaxDocChunks}}
    /\ BpIdle /\ BfIdle /\ ClassifyIdle /\ MoreIdle
    /\ rpc = "load" /\ runs = 1 /\ firstRows = {} /\ rpError = NoError
    /\ rowsBefore = RowsOf(store, RpSource)

ReprocessNext ==
    \/ RpLoad /\ UNCHANGED <<cancelled, clVars, moreVars>>
    \/ RpDelete /\ UNCHANGED <<cancelled, clVars, moreVars>>
    \/ RpChunkStep /\ UNCHANGED <<cancelled, clVars, moreVars>>
    \/ RpChunked /\ UNCHANGED <<cancelled, clVars, moreVars>>
    \/ RpBatchStep /\ UNCHANGED <<cancelled, clVars, moreVars>>
    \/ RpReturned /\ UNCHANGED <<cancelled, clVars, moreVars>>
    \/ RpRaised /\ UNCHANGED <<cancelled, clVars, moreVars>>
    \/ SourcesDelete /\ UNCHANGED <<cancelled, clVars, moreVars>>
    \/ RpAgain /\ UNCHANGED <<cancelled, clVars, moreVars>>

SpecReprocess == ReprocessInit /\ [][ReprocessNext]_vars


(***************************************************************************)
(* Claims about the batch processor.                                       *)
(***************************************************************************)
RECURSIVE Pow(_, _)
Pow(b, k) == IF k = 0 THEN 1 ELSE b * Pow(b, k - 1)

\* the delay before jitter of sleep number k (k = 0, 1, ...)
BackoffDelay(k) == opts.initialDelay * Pow(opts.backoffMultiplier, k)

\* the batch raised and none of its attempts succeeded
AllAttemptsFailed == bpPc = "raised" /\ inserts = 0

\* C5: a batch is never attempted more than maxRetries times; while it
\* sleeps, attempts remain; a batch that raised after nothing but retryable
\* failures was attempted exactly maxRetries times and slept exactly
\* maxRetries - 1 times; and sleep number k lasted
\* min(initialDelay * backoffMultiplier^k + jitter, maxDelay) with
\* 0 <= jitter <= 10% of initialDelay * backoffMultiplier^k.
C5_RetryBound ==
    /\ calls <= opts.maxRetries
    /\ bpPc = "sleep" => (Len(sleeps) = calls /\ calls < opts.maxRetries)
    /\ (AllAttemptsFailed /\ isRetryableError(bpError)) =>
          (calls = opts.maxRetries /\ Len(sleeps) = opts.maxRetries - 1)
    /\ \A k \in 1..Len(sleeps) :
          /\ sleeps[k] <= opts.maxDelay
          /\ \E jitter \in 0..(BackoffDelay(k - 1) \div 10) :
                sleeps[k] = Min(BackoffDelay(k - 1) + jitter, opts.maxDelay)

\* C5 witness: three attempts, all failed with a retryable error, two
\* sleeps of which the second is the longer, and the batch raised.
C5_Witness ==
    /\ AllAttemptsFailed /\ isRetryableError(bpError)
    /\ opts.maxRetries = 3 /\ calls = 3
    /\ Len(sleeps) = 2 /\ sleeps[2] > sleeps[1]

\* C6 (as claimed): in both functions a batch that succeeds after one or
\* more retryable failures does not make the call raise, has its rows in the
\* store, inserted once, and the call goes on to the next batch; a second
\* sleep that maxDelay does not cap is about twice the first.
C6_RecoveryAfterTransient ==
    /\ (inserts >= 1 /\ calls >= 2) =>
          /\ bpPc = "next"
          /\ inserts = 1
          /\ \A k \in 1..Len(batch) :
                \E r \in RowsOf(store, bpSource) :
                    r.chunk_index = batch[k] /\ r.fresh
    /\ (Len(sleeps) >= 2 /\ sleeps[2] < opts.maxDelay) =>
          (10 * sleeps[2] >= 18 * sleeps[1] /\ 10 * sleeps[2] <= 22 * sleeps[1])

\* the batches of the call: consecutive groups of batchSize chunk indices
BatchesOf(total, batchSize) ==
    {{i \in 0..(total - 1) : i \div batchSize = g} : g \in 0..(total \div batchSize)}
        \ {{}}

StoredIndices(st, s) == {r.chunk_index : r \in RowsOf(st, s)}

\* C7: in every state the store holds, of every batch of the source, all
\* rows or none; and an attempt that fails, at the embedding call or at the
\* bulk insert, leaves the store as it was.
C7_AtomicBatches ==
    /\ [](\A B \in BatchesOf(bpTotal, opts.batchSize) :
             LET present == B \cap StoredIndices(store, bpSource)
             IN  present = {} \/ present = B)
    /\ [][(bpPc \in {"embed", "insert"} /\ bpPc' \in {"sleep", "raised"}
             /\ inserts' = inserts) => store' = store]_vars

\* C7 witness: a two-chunk batch is in the store after an attempt on it had
\* failed, next to a batch that is not there yet.
C7_Witness ==
    /\ Len(batch) = 2 /\ calls >= 2 /\ inserts = 1
    /\ consumed < bpTotal
    /\ {batch[1], batch[2]} \subseteq StoredIndices(store, bpSource)

\* C15 (as claimed): what generateEmbeddings returns for the texts of a
\* batch holds one vector per text, the k-th being the provider's vector for
\* the k-th text.
C15_ResultShape ==
    bpPc = "insert" =>
        /\ Len(embeddings) = Len(batch)
        /\ \A k \in 1..Len(embeddings) : embeddings[k] = VectorOf(batch[k])

\* the errors of a provider that will never answer the same request well: a
\* 4xx status other than 429, an answer without data, and an answer without
\* one of the vectors (which reaches the batch processor as the store's
\* refusal of the row without a vector)
PermanentProviderErrors == {BadRequest, NoEmbeddingsReturned, NotNullViolation}

\* C17 (as claimed): an attempt that failed with a permanent error of the
\* provider is followed by no sleep and no further attempt: the call has
\* raised.
C17_PermanentFailFast ==
    lastError \in PermanentProviderErrors => bpPc = "raised"

\* the errors the bulk insert answers with
StoreErrors == {UniqueViolation, StoreUnavailable}

\* C18 (as claimed): an attempt whose bulk insert answered with an error is
\* not retried: the call has raised.
C18_StoreErrorsFatal ==
    lastError \in StoreErrors => bpPc = "raised"


(***************************************************************************)
(* Claims about backfillEmbeddings.                                        *)
(***************************************************************************)
FreshRows(st, s) == {r \in RowsOf(st, s) : r.fresh}

Occurrences(seq, x) == Cardinality({i \in 1..Len(seq) : seq[i] = x})

ErrorEntries(d) == {i \in 1..Len(result.errors) : result.errors[i].sourceId = d}

RECURSIVE SumOver(_, _)
\* the sum of f[d] over the set S
SumOver(S, f) ==
    IF S = {} THEN 0
    ELSE LET d == CHOOSE x \in S : TRUE IN f[d] + SumOver(S \ {d}, f)

\* C8 (as claimed): once a source is recorded as failed with a retryable
\* error of the provider or of the store (its batch exhausted its retries),
\* the store holds no row this run inserted for it.
C8_NoPartialSalvage ==
    \A i \in 1..Len(result.errors) :
        (result.errors[i].error # CallbackError
            /\ isRetryableError(result.errors[i].error)) =>
                FreshRows(store, result.errors[i].sourceId) = {}

\* C9 (as claimed): an error of the store or of the provider raised while a
\* source is handled gives that source exactly one entry in errors and one
\* call of onError and counts it as failed and as nothing else; a source
\* is counted as failed only through an error of its own; once the last
\* task is over every listed source has been handled; and
\* backfillEmbeddings does not raise.
C9_FailureIsolation ==
    /\ \A d \in DocIds :
          /\ (\E i \in ErrorEntries(d) : result.errors[i].error # CallbackError) =>
                /\ Cardinality(ErrorEntries(d)) = 1
                /\ Occurrences(errorCalls, d) = 1
                /\ outcomes[d] = <<"failed">>
          /\ Occurrences(outcomes[d], "failed") > 0 => ErrorEntries(d) # {}
    /\ wpc = "done" => \A d \in DocIds : outcomes[d] # <<>>
    /\ bfState # "raised"

\* C10 (as claimed): when backfillEmbeddings has returned, every listed
\* source was counted in exactly one of processedSources, skippedSources and
\* failedSources, the three add up to totalSources, errors has exactly one
\* entry per failed source, and totalChunks is the sum of the chunk counts
\* of the processed sources.
C10_Accounting ==
    bfState = "returned" =>
        /\ \A d \in DocIds : Len(outcomes[d]) = 1
        /\ result.processedSources + result.skippedSources
              + result.failedSources = result.totalSources
        /\ result.totalSources = NumDocs
        /\ \A d \in DocIds :
              Cardinality(ErrorEntries(d)) = Occurrences(outcomes[d], "failed")
        /\ Len(result.errors) = result.failedSources
        /\ result.totalChunks =
              SumOver({d \in DocIds : Occurrences(outcomes[d], "processed") > 0},
                      bodies)

\* the sources whose row or whose contents are missing
NoBodyDocs == {d \in DocIds : bodies[d] \in {NotFound, NoContent}}

\* C11 (as claimed): a source without contents is never counted as failed
\* for lack of contents (only an error of the store can fail it), is counted
\* as skipped once handled, never reaches the embedding step and has no row
\* in the store; and a run in which neither the provider nor the store showed
\* a failure and no source had rows before returns with
\* processed = the sources with contents, skipped = those without, failed = 0.
C11_ContentErrorsAreSkips ==
    /\ \A d \in NoBodyDocs :
          /\ \A i \in ErrorEntries(d) : result.errors[i].error = StoreUnavailable
          /\ (d < cur /\ ErrorEntries(d) = {}) => outcomes[d] = <<"skipped">>
          /\ RowsOf(store, d) = {}
    /\ wpc = "embed" => cur \notin NoBodyDocs
    /\ (bfState = "returned" /\ faults = 0 /\ \A r \in store : r.fresh) =>
          /\ result.processedSources = NumDocs - Cardinality(NoBodyDocs)
          /\ result.skippedSources = Cardinality(NoBodyDocs)
          /\ result.failedSources = 0

\* C12: with skipExisting the body of a source is loaded only after the
\* existence check; and when the check finds a row of the source, the source
\* is counted as skipped, its body is not loaded, no embedding call is made
\* and the store is left as it was.
C12_SkipExisting ==
    /\ [][(wpc' = "load" /\ wpc # "load" /\ skipExisting) => wpc = "check"]_vars
    /\ [][(wpc = "check" /\ wpc' # "check" /\ RowsOf(store, cur) # {}
              /\ faults' = faults) =>
            /\ result'.skippedSources = result.skippedSources + 1
            /\ outcomes'[cur][1] = "skipped"
            /\ cur' = cur + 1
            /\ wpc' \notin {"load", "embed"}
            /\ bpPc' = "idle" /\ calls' = 0
            /\ store' = store]_vars

\* C12 witness: the first source has contents and rows from an earlier run,
\* and was skipped by the existence check; the store holds nothing new.
C12_Witness ==
    /\ skipExisting /\ cur > 1
    /\ bodies[1] = MaxDocChunks /\ RowsOf(store, 1) # {}
    /\ outcomes[1] = <<"skipped">>
    /\ result.skippedSources >= 1
    /\ \A r \in store : ~r.fresh

\* C14 (as claimed): re-embedding a source that has rows never fails on
\* UNIQUE(source_id, chunk_index), and a processed source is left with the
\* rows of this run only.
C14_ReprocessingReplaces ==
    /\ \A i \in 1..Len(result.errors) : result.errors[i].error # UniqueViolation
    /\ \A d \in DocIds :
          Occurrences(outcomes[d], "processed") > 0 =>
              RowsOf(store, d) = FreshRows(store, d)

\* C19 (as claimed): a throwing onProgress changes nothing: no source is
\* counted twice or fails with the callback's error, and backfillEmbeddings
\* does not raise.
C19_ProgressBestEffort ==
    /\ \A d \in DocIds : Len(outcomes[d]) <= 1
    /\ \A i \in 1..Len(result.errors) : result.errors[i].error # CallbackError
    /\ bfState # "raised"


\* C20 (as claimed): once the caller has asked for the run to stop, no
\* source is started and no batch is started.
C20_CooperativeCancel ==
    [][cancelled =>
          /\ ~(wpc = "start" /\ wpc' \in {"check", "load"})
          /\ ~(bpPc = "next" /\ bpPc' = "embed")]_vars

(***************************************************************************)
(* Claims about isRetryableError.                                          *)
(***************************************************************************)
\* C16 (as claimed): status 429 and 500..599 are retryable; every other
\* status 400..499 is fatal, whatever the code and the message; an error
\* without such a status is retryable, be it a timeout, a reset or an error
\* the function does not recognise.
C16_Classification ==
    verdict # "none" =>
        LET status == probe.statusCode
        IN  /\ status = 429 => verdict = "retryable"
            /\ (status >= 500 /\ status <= 599) => verdict = "retryable"
            /\ (status >= 400 /\ status <= 499 /\ status # 429) => verdict = "fatal"
            /\ (status < 400 \/ status > 599) => verdict = "retryable"

(***************************************************************************)
(* Claims about processSource and reprocessSource.                         *)
(***************************************************************************)
\* the rows batch_insert_chunks makes of the chunker's result for source s
RowsFromChunks(s) ==
    {[source_id |-> s, chunk_index |-> chunks[k].index,
      content |-> chunks[k].content, token_count |-> chunks[k].tokenCount,
      start_char_offset |-> chunks[k].startOffset,
      end_char_offset |-> chunks[k].endOffset,
      embedding |-> VectorOf(chunks[k].index), fresh |-> TRUE] :
        k \in 1..Len(chunks)}

\* C13: when reprocessSource returns, the store holds for the source exactly
\* the rows of the chunker's result for its text, one per chunk, whatever
\* rows it held before; a second call leaves the same rows as the first;
\* and the call fails only when the source or its contents are missing or
\* the store or the provider has shown a failure.
C13_IdempotentReprocessing ==
    /\ rpc = "done" =>
          /\ RowsOf(store, RpSource) = RowsFromChunks(RpSource)
          /\ Cardinality(RowsOf(store, RpSource)) = Len(chunks)
          /\ \A k \in 1..Len(chunks) :
                chunks[k].content =
                    Substring(text, chunks[k].startOffset, chunks[k].endOffset)
    /\ (rpc = "done" /\ runs >= 2) => RowsOf(store, RpSource) = firstRows
    /\ rpc = "failed" =>
          (faults > 0 \/ rpError \in {SourceNotFound, SourceHasNoContent})

\* C13 witness: the second call has returned for a text of more chunks than
\* one batch takes.
C13_Witness ==
    /\ rpc = "done" /\ runs = 2
    /\ Len(chunks) > DefaultBatchSize
    /\ firstRows # {}
    /\ Cardinality(RowsOf(store, RpSource)) = Len(chunks)

(***************************************************************************)
(* Claims about the chunker.                                               *)
(***************************************************************************)
Last(s) == s[Len(s)]

\* C1 (as claimed): when semanticChunk returns, the first chunk starts at 0,
\* every later chunk starts at or before the end of the one before it, the
\* last chunk ends at text.length, and each content is text[start, end).
C1_Coverage ==
    cpc = "done" =>
        /\ \A i \in 1..Len(chunks) :
              /\ chunks[i].content =
                     Substring(text, chunks[i].startOffset, chunks[i].endOffset)
              /\ i = 1 => chunks[i].startOffset = 0
              /\ i > 1 => chunks[i].startOffset <= chunks[i - 1].endOffset
        /\ chunks # <<>> => Last(chunks).endOffset = Len(text)

\* C2 (as claimed): a non-empty text no longer than targetSize * 4 comes back
\* as exactly one chunk that spans the whole text.
C2_ShortTextOneChunk ==
    (cpc = "done" /\ Len(text) > 0 /\ Len(text) <= targetCharsOf(targetSize)) =>
        /\ Len(chunks) = 1
        /\ chunks[1].startOffset = 0
        /\ chunks[1].endOffset = Len(text)

\* C3: every pass through the loop body strictly increases position (also
\* when the overlap is as large as the chunk just emitted) and position never
\* passes the end of the text, so the loop ends after at most text.length
\* chunks.
C3_Termination ==
    /\ [](Len(chunks) <= Len(text))
    /\ [][(cpc = "loop" /\ position < Len(text)) =>
            (position' > position /\ position' <= Len(text))]_vars

\* C3 witness: the chunker returned several chunks although the overlap was
\* at least as long as the first chunk.
C3_Witness ==
    /\ cpc = "done"
    /\ Len(chunks) >= 3
    /\ overlapCharsOf(targetSize, overlapPct) >= Len(chunks[1].content)

\* C4: the chunk indices are 0, 1, ..., N-1 in emission order, and on return
\* N = 0 exactly when the text is empty.
C4_MonotonicIndices ==
    /\ \A i \in 1..Len(chunks) : chunks[i].index = i - 1
    /\ cpc = "done" => (Len(chunks) = 0 <=> Len(text) = 0)

\* C4 witness: a returned result of at least three chunks.
C4_Witness == cpc = "done" /\ Len(chunks) >= 3 /\ Last(chunks).index = Len(chunks) - 1

(***************************************************************************)
(* Overlap and size of the chunks                                          *)
(***************************************************************************)
\* semanticChunk's first pass over a 10,000-character text at the defaults
\* (targetSize 512, overlapRatio 0.15) does not end the loop
DefaultsGiveSeveralChunks ==
    LET s == Filler(10000)
        endPosition == EndPositionOf(s, 0, targetCharsOf(512))
    IN  ~TailReached(NextPositionOf(0, endPosition, overlapCharsOf(512, 15)), s)

\* C28: consecutive chunks overlap by exactly floor(targetSize x 4 x
\* overlapRatio) characters when the earlier chunk is longer than that, and
\* by nothing otherwise; the overlap is 307 at the defaults, and a text
\* longer than one chunk plus the tail the loop leaves gives several chunks
C28_Overlap ==
    LET expected == (targetSize * 4 * overlapPct) \div 100
    IN  /\ \A i \in 1..(Len(chunks) - 1) :
              LET len == chunks[i].endOffset - chunks[i].startOffset
                  d == chunks[i].endOffset - chunks[i + 1].startOffset
              IN  d = IF len > expected THEN expected ELSE 0
        /\ (512 * 4 * 15) \div 100 = 307
        /\ overlapCharsOf(512, 15) = 307
        /\ DefaultsGiveSeveralChunks
        /\ (cpc = "done" /\ Len(text) > targetSize * 4 + 2 + TailEpsilon)
              => Len(chunks) > 1

\* two chunks that share a positive number of characters
C28_Witness ==
    /\ Len(chunks) >= 2
    /\ overlapCharsOf(targetSize, overlapPct) > 0
    /\ chunks[1].endOffset - chunks[1].startOffset
          > overlapCharsOf(targetSize, overlapPct)
    /\ chunks[1].endOffset - chunks[2].startOffset
          = overlapCharsOf(targetSize, overlapPct)

\* C29: every chunk is at most targetSize x 4 characters long, and a chunk
\* that does not end at the end of the text is at least 80% of that
C29_SizeWindow ==
    \A i \in 1..Len(chunks) :
        LET len == chunks[i].endOffset - chunks[i].startOffset
        IN  /\ len <= targetSize * 4
            /\ chunks[i].endOffset # Len(text) => 5 * len >= 4 * targetSize * 4

(***************************************************************************)
(* Heading context                                                         *)
(***************************************************************************)
\* C30: a chunk whose lookahead window holds a markdown heading carries the
\* first heading of that window; any other chunk carries the heading
\* context of the chunk before it, and none when there is no chunk before it
C30_HeadingContext ==
    \A i \in 1..Len(chunks) :
        LET window == SearchText(text, chunks[i].startOffset)
            first == Exec(window, 0)
            previous == IF i = 1 THEN <<>> ELSE chunks[i - 1].headingContext
        IN  chunks[i].headingContext =
                IF first.found THEN first.group ELSE previous

(***************************************************************************)
(* The generator against semanticChunk                                     *)
(***************************************************************************)
\* C27: semanticChunkGenerator yields, in order, exactly the chunks
\* semanticChunk returns for the same text and parameters: what either has
\* produced so far agrees chunk by chunk, and once both have finished the
\* two sequences are equal
C27_LazyEqualsMaterialized ==
    /\ \A i \in 1..Min(Len(chunks), Len(yielded)) : yielded[i] = chunks[i]
    /\ (cpc = "done" /\ gpc = "done") => yielded = chunks

\* both have finished a text of several chunks with a heading context
C27_Witness ==
    /\ cpc = "done" /\ gpc = "done"
    /\ Len(yielded) >= 2
    /\ yielded[2].headingContext # <<>>
    /\ yielded[2].startOffset < yielded[1].endOffset

(***************************************************************************)
(* Order of the batches of one document                                    *)
(***************************************************************************)
FreshIndices(st, s) == {r.chunk_index : r \in FreshRows(st, s)}

\* C25: while a batch is being embedded, inserted or slept on, every chunk
\* before it has been inserted by this call and no chunk after it has; an
\* insert adds exactly the rows of the batch that is in flight, all of them
\* with indices above every row the call inserted before; and a call that
\* has raised makes no further call and changes nothing
C25_SequentialBatches ==
    /\ [](bpPc \in {"embed", "insert", "sleep"} =>
            /\ batch # <<>>
            /\ \A i \in 0..(batch[1] - 1) : i \in FreshIndices(store, bpSource)
            /\ \A i \in FreshIndices(store, bpSource) : i < batch[1])
    /\ [][store' # store =>
            /\ bpPc = "insert"
            /\ {r.chunk_index : r \in store' \ store}
                  = {batch[k] : k \in 1..Len(batch)}
            /\ \A k \in 1..(Len(batch) - 1) : batch[k + 1] = batch[k] + 1
            /\ \A i \in FreshIndices(store, bpSource) : i < batch[1]]_vars
    /\ [][bpPc = "raised" =>
            /\ bpPc' = "raised"
            /\ UNCHANGED <<store, calls, inserts, consumed, batch>>]_vars
    /\ [](bpPc = "raised" =>
            \A i \in FreshIndices(store, bpSource) : i < consumed)

\* the second batch of a document is at its embedding call, after the first
\* batch was inserted
C25_Witness ==
    /\ bpPc = "embed"
    /\ batch # <<>>
    /\ batch[1] >= 1
    /\ FreshIndices(store, bpSource) = 0..(batch[1] - 1)

(***************************************************************************)
(* The materialized and the streaming batch function                       *)
(***************************************************************************)
\* the batches a run has formed so far, in order
FormedBatches == [k \in 1..Len(SelectSeq(trace, LAMBDA e : e.call = "next" /\ e.batch # <<>>)) |->
                     SelectSeq(trace, LAMBDA e : e.call = "next" /\ e.batch # <<>>)[k].batch]

\* C26: for the same source, chunks, options and answers the two functions
\* form the same batches, make the same calls and sleeps in the same order,
\* leave the same table and both return or both raise, with the same
\* error; and the batches of a run are consecutive groups of batchSize
\* chunks, the last one possibly shorter
C26_Equivalent ==
    /\ (eqPhase = "second" /\ bpPc \in {"returned", "raised"}) =>
          /\ trace = firstRun.trace
          /\ store = firstRun.store
          /\ bpPc = firstRun.end
          /\ bpError = firstRun.error
    /\ eqPhase # "none" =>
          \A k \in 1..Len(FormedBatches) :
              /\ FormedBatches[k] = TakeBatch((k - 1) * opts.batchSize, bpTotal,
                                              opts.batchSize)
              /\ Len(FormedBatches[k]) = opts.batchSize
                    \/ FormedBatches[k][Len(FormedBatches[k])] = bpTotal - 1

(***************************************************************************)
(* The worker pool of the backfill                                         *)
(***************************************************************************)
\* C21: at every moment at most PoolLimit tasks are past their start and
\* not settled, PoolLimit being at most 2; the sources whose body is held
\* are among them; p-limit's count is the number of those tasks; and no
\* two of them work on the same source
C21_BoundedPool ==
    /\ PoolLimit <= 2
    /\ Cardinality(TasksAt(InFlightStages)) <= PoolLimit
    /\ Cardinality(TasksAt({"embed"})) <= Cardinality(TasksAt(InFlightStages))
    /\ activeCount = Cardinality(TasksAt(InFlightStages))
    /\ \A i \in TasksAt(InFlightStages) : \A j \in TasksAt(InFlightStages) :
          minimalSources[i] = minimalSources[j] => i = j

\* a task holds the body of its source while an earlier task has settled
\* and a later one waits
C21_Witness ==
    /\ TasksAt({"embed"}) # {}
    /\ TasksAt(SettledStages) # {}
    /\ TasksAt({"queued"}) # {}

(***************************************************************************)
(* Retrieval                                                               *)
(***************************************************************************)
\* how often x occurs in the sequence q
CountIn(q, x) == Cardinality({i \in 1..Len(q) : q[i] = x})

\* C22: a list that enhancedSearch or searchSourceChunks returns has at
\* most `limit` entries (10 when no limit is given), each with a similarity
\* strictly above the threshold (0.7 when none is given), in falling order
\* of similarity, or of similarity plus keyword score when rerank is set;
\* and it holds exactly the rows the store answered, as often
C22_ThresholdContract ==
    (seFn # "none" /\ sePc = "returned") =>
        LET limit == IF seOpts.limit = Absent THEN DefaultLimit ELSE seOpts.limit
            threshold == IF seOpts.threshold = Absent THEN DefaultThreshold
                         ELSE seOpts.threshold
            score(r) == IF seOpts.rerank THEN r.similarity + KeywordBoost * r.hits
                        ELSE r.similarity
        IN  /\ Len(seResult) <= limit
            /\ \A i \in 1..Len(seResult) : seResult[i].similarity > threshold
            /\ \A i \in 1..(Len(seResult) - 1) :
                  score(seResult[i]) >= score(seResult[i + 1])
            /\ Len(seResult) = Len(seData)
            /\ \A i \in 1..Len(seData) :
                  CountIn(seResult, seData[i]) = CountIn(seData, seData[i])

\* a reranked answer of two rows, in another order than the store gave
\* them, with a third row of the table left out
C22_Witness ==
    /\ seFn = "enhanced" /\ sePc = "returned" /\ seOpts.rerank
    /\ Len(seResult) = 2
    /\ seResult # seData
    /\ Cardinality(seRows) = 3

\* C23: when an essayId is given, every match that enhancedSearch or
\* searchSourceChunks returns belongs to a source linked to that essay
C23_ScopedSearch ==
    (seFn # "none" /\ sePc = "returned" /\ seOpts.essayId # Absent) =>
        \A i \in 1..Len(seResult) :
            <<seOpts.essayId, seResult[i].sourceId>> \in seLinks

\* C24: a search returns only after generateEmbedding gave a vector and
\* the rpc answered without an error, it raises when either failed, and
\* the list it returns is empty only when the store answered no row
C24_NoMaskedFailure ==
    /\ (seFn # "none" /\ sePc = "returned") =>
          /\ seEmbed = NoError
          /\ seError = NoError
          /\ seResult = <<>> => seData = <<>>
    /\ (seFn # "none" /\ (seEmbed # NoError \/ seError # NoError)) =>
          sePc = "raised"

\* the embedding succeeded, the rpc answered with an error and the search
\* raised over a table that holds a match
C24_Witness ==
    /\ seFn = "simple" /\ sePc = "raised"
    /\ seEmbed = NoError /\ seError = StoreUnavailable
    /\ \E r \in seRows : r.similarity > DefaultThreshold

(***************************************************************************)
(* Reranking                                                               *)
(***************************************************************************)
\* C31: with rerank enabled the list enhancedSearch returns is sorted by
\* falling combined score (similarity + 0.05 for every query term the
\* content holds), and no candidate stands before a candidate whose
\* similarity is higher by more than 0.05
C31_RerankNearTies ==
    (sePc = "returned" /\ seFn = "enhanced" /\ seOpts.rerank) =>
        /\ \A i \in 1..(Len(seResult) - 1) :
              FinalScore(seResult[i]) >= FinalScore(seResult[i + 1])
        /\ \A i \in 1..Len(seResult) : \A j \in (i + 1)..Len(seResult) :
              seResult[j].similarity - seResult[i].similarity <= KeywordBoost

(***************************************************************************)
(* Runs of the backfill one after the other                                *)
(***************************************************************************)
\* C32: in a sequence of backfill runs with skipExisting, a source is
\* skipped because it has embeddings only when the stored chunk indices of
\* that source are exactly 0..N-1 for the N chunks of its body, and never
\* when its task failed in the run before
C32_SkipOnlyComplete ==
    [][(bfRun >= 1 /\ wpc = "check"
            /\ outcomes'[cur] = Append(outcomes[cur], "skipped")) =>
          /\ StoredIndices(store, cur) = 0..(bodies[cur] - 1)
          /\ cur \notin prevFailed]_vars

\* C33: when reprocessSource raises, the rows the source had in the table
\* before the call are still there, unchanged
C33_FailedReprocessKeepsRows ==
    rpc = "failed" => rowsBefore \subseteq RowsOf(store, RpSource)

(***************************************************************************)
(* The count processSourceInBatchesStreaming returns                       *)
(***************************************************************************)
\* C34: when processSourceInBatchesStreaming returns, the number it returns
\* is the number of chunks taken from the generator and the number of rows
\* the call inserted for the source; and whenever processBatch has returned
\* for a batch, the rows of that batch are in the table
C34_CountEqualsRows ==
    bpFn = "streaming" =>
        /\ bpPc = "returned" =>
              /\ totalProcessed = consumed
              /\ totalProcessed = Cardinality(FreshRows(store, bpSource))
        /\ \A i \in 0..(totalProcessed - 1) :
              \E r \in FreshRows(store, bpSource) : r.chunk_index = i

(***************************************************************************)
(* Vectors and the chunks they belong to                                   *)
(***************************************************************************)
\* C35: every row a call has inserted carries a vector, and it is the
\* vector the provider computed for the content of that row's own chunk,
\* also when an answer of the provider leaves out a vector
C35_VectorAlignment ==
    \A r \in store :
        r.fresh => r.embedding # Null /\ r.embedding = VectorOf(r.chunk_index)

\* an answer for a batch of two chunks left out a vector and the insert was
\* refused; the batch was embedded again and its rows are in the table
C35_Witness ==
    /\ Len(batch) = 2
    /\ lastError = NotNullViolation
    /\ \A k \in 1..2 : \E r \in FreshRows(store, bpSource) :
          r.chunk_index = batch[k]

(***************************************************************************)
(* The counts handed to the progress callback                              *)
(***************************************************************************)
\* C36: in a backfill run whose callback never throws, the completedCount
\* values handed to onProgress never fall from one call to the next and
\* never exceed totalCount, and once every source has reached a terminal
\* state the last call has reported completedCount = totalCount
C36_MonotoneProgress ==
    (bfState # "none" /\ throwsOn = {}) =>
        /\ \A i \in 1..(Len(progress) - 1) : progress[i] <= progress[i + 1]
        /\ \A i \in 1..Len(progress) : progress[i] <= result.totalSources
        /\ wpc = "done" => progress[Len(progress)] = result.totalSources

(***************************************************************************)
(* Chunks that add nothing                                                 *)
(***************************************************************************)
\* C37: with the default parameters every chunk after the first ends past
\* the end of the chunk before it, so no chunk lies within its predecessor
C37_NoRedundantChunk ==
    \A i \in 1..(Len(chunks) - 1) :
        chunks[i + 1].endOffset > chunks[i].endOffset

\* C38: the list enhancedSearch returns never holds the same chunk id
\* twice, whatever the links between sources and essays and whatever the
\* options
C38_NoDuplicateMatches ==
    (seFn = "enhanced" /\ sePc = "returned") =>
        \A i \in 1..Len(seResult) : \A j \in 1..Len(seResult) :
            seResult[i].id = seResult[j].id => i = j

(***************************************************************************)
(* Cancellation of researchTopic                                           *)
(***************************************************************************)
\* C39: once a check of shouldCancel() has answered true, no task that was
\* still waiting is started; and when researchTopic returns, every article
\* saved during the call is counted in articlesArchived (which holds the
\* linked sources besides) and every task that failed in articlesFailed
C39_ResearchCancel ==
    /\ [][cancelSeen =>
            \A k \in 1..Len(taskStage) :
                taskStage[k] = "queued" => taskStage'[k] = "queued"]_vars
    /\ [][(rtPc # "returned" /\ rtPc' = "returned") =>
            /\ articlesArchived' = articlesLinked' +
                  Cardinality({k \in 1..Len(taskStage') : taskStage'[k] = "saved"})
            /\ articlesFailed' =
                  Cardinality({k \in 1..Len(taskStage') : taskStage'[k] = "failed"})]_vars

====
